---- MODULE Spec2Model ----
(***************************************************************************)
(* DevBootstrap: the command-execution and installer-orchestration core.   *)
(*                                                                         *)
(* The module holds four state machines over one set of variables:         *)
(*   Spec      the batch orchestrator (use cases, factory, its callers)    *)
(*   SpecExec  the process runner (ShellExecutor.Execute, Runner.Run)      *)
(*   SpecSudo  the privilege broker of the TUI (askpass relay helper)      *)
(*   SpecDocker the Debian-family Docker install driven through the runner *)
(* Each specification moves its own group of variables and leaves the      *)
(* other groups at their idle values.                                      *)
(***************************************************************************)
EXTENDS Integers, Sequences, FiniteSets, TLC

VARIABLES
    \* ---- batch orchestrator
    platform,       \* entity.Platform OS family: "macos", "debian", "other"
    factory,        \* which InstallerFactory build is wired: "v1" (docker, vscode only) or "v2"
    caller,         \* primary adapter driving the batch: "cli" or "tui"
    uninstallMode,  \* container.UninstallMode / Model.uninstallMode
    noInteraction,  \* container.NoInteraction
    sys,            \* the machine: sys[a] is TRUE when application a is really installed
    repo,           \* MemoryRepository: stored status of each application
    appIDs,         \* the selection handed to ExecuteMultiple, in order
    idx,            \* number of loop iterations of ExecuteMultiple completed
    results,        \* the map built by ExecuteMultiple: id -> result
    events,         \* what the batch has emitted/called so far, in order
    exitCode,       \* status returned by the caller: -1 while running
    pc,             \* position of the batch
    \* ---- process runner
    dryRun,         \* ShellExecutor.dryRun / Runner.DryRun
    sudoAskpass,    \* ShellExecutor.sudoAskpass: "" or the path of the relay helper
    isRoot,         \* os.Geteuid() == 0
    reporterSet,    \* ShellExecutor.reporter != nil
    last,           \* the most recent runner call: its options and what it did
    calls,          \* number of runner calls made
    spawned,        \* number of subprocesses really started
    notices,        \* number of "[DRY RUN] ..." notices emitted
    \* ---- Docker install on a Debian-family system
    dkOpts,         \* DockerOptions and the platform's user name
    dkPc,           \* the step of UbuntuStrategy.Install about to run
    dkLog,          \* the commands and downloads issued so far, in order
    dkInstallResult,\* the local installResult that collects the warnings
    dkResult,       \* the result Install returned (meaningful once dkPc = "done")
    dkNet,          \* number of HTTP requests really sent
    dkFiles,        \* files the install really wrote
    \* ---- privilege broker
    broker,         \* "askpass": internal/tui/app.go relay helper; "cache": cmd/root.go sudo -v
    sudoAvailable,  \* exec.LookPath("sudo") succeeds
    sudoPc,         \* position of runInstallations / preCacheSudo
    sudoAskpassScript, \* the package variable holding the helper's path
    helper,         \* the helper file on disk
    prompts,        \* number of secret prompts shown
    verifies,       \* number of secret verifications run
    created,        \* number of helper files created
    removed,        \* number of helper files removed
    warnings,       \* warnings printed by the broker
    nItems,         \* len(a.selectedItems)
    item,           \* number of items the loop has processed
    hasError,       \* runInstallations' hasError
    exitStatus,     \* process exit status: -1 while running
    \* ---- one command inside the runner
    procRunner,     \* which runner executes the command: "shell" or "legacy"
    procOpts,       \* the options of the call
    procPhase,      \* "call", "running" (inside cmd.Run), "returned"
    child,          \* the subprocess: "none", "running", "exit0", "exitN", "killed", "nostart"
    ctxErr,         \* ctx.Err(): "nil" or "DeadlineExceeded"
    expiredRunning, \* the deadline expired while the subprocess was running
    procEntry,      \* the runner method that was called
    token,          \* the caller's cancellation token
    \* ---- one use-case operation on one application, down to its strategy
    opApp,          \* the application identifier
    opPlatform,     \* entity.Platform OS family
    opKind,         \* "install" or "uninstall"
    opOpts,         \* primary.InstallOptions / UninstallOptions
    opSilent,       \* SurveyPrompter.noInteraction (container.NoInteraction)
    opInstalled,    \* the application is really present on the machine
    opStored,       \* the status stored in the repository
    opStatus,       \* the status the most recent CheckStatus call returned
    opPc,           \* position inside Execute
    opLog,          \* status checks, questions and strategy steps so far, in order
    opRemoved,      \* the paths handed to a removal call, with their kind
    opResult,       \* the result Execute returned (meaningful once opPc = "done")
    \* ---- the progress spinner of the terminal reporter
    spinnerActive,  \* TerminalReporter.spinnerActive, as stored
    spinnerStale,   \* the goroutine cleared spinnerActive with no synchronisation since
    spinPc,         \* position of the spinner goroutine
    callerPc,       \* position of the goroutine that calls the reporter
    term,           \* what reached the terminal, and the calls that returned, in order
    \* ---- the filesystem as an install or uninstall changes it
    fsDryRun,       \* LocalFileSystem.dryRun
    fsDisk,         \* what each path holds
    fsDisk0,        \* what each path held before the operation
    fsReported,     \* the "[DRY RUN] ..." notices, in order
    fsOps,          \* the mutations requested so far
    \* ---- the terminal UI (Bubble Tea model)
    tuiState,       \* Model.state
    tuiInstalled,   \* IsInstalled() of each entry of Model.apps
    tuiUninstall,   \* Model.uninstallMode
    modeIndex,      \* Model.modeIndex
    appIndex,       \* Model.appIndex
    selectedApps,   \* the indices Model.selectedApps maps to true
    tuiJob,         \* the applications startInstallation captured
    tuiCmd,         \* the installation command: "none", "running", "sent", "delivered"
    tuiMsg,         \* the installDoneMsg the command returned
    tuiCounts,      \* Model.successCount, Model.failureCount
    spinnerFrame,   \* Model.spinnerFrame
    tuiQuit,        \* Update returned tea.Quit
    \* ---- the Docker Desktop install on macOS
    macImpl,        \* "v3" (MacOSStrategy) or "legacy" (macOSInstaller)
    macDry,         \* the dry-run flag of the executor and of the filesystem
    macPc,          \* position inside Install
    macDefers,      \* the deferred calls registered so far, oldest first
    macLog,         \* what was really done to the machine, in order
    macTmp,         \* the temporary download directory exists
    macCreated,     \* this install created the temporary directory
    macMounted,     \* an image is mounted at /Volumes/Docker
    macOk,          \* the result Install returns is a success
    \* ---- Oh My Zsh and the user's .zshrc
    zshDry,         \* LocalFileSystem.dryRun (and the executor's)
    zshFiles,       \* content of ~/.zshrc and of ~/.zshrc.backup
    zshOrig,        \* content of ~/.zshrc before the first install
    zshDir,         \* ~/.oh-my-zsh exists
    zshInstalls,    \* Install calls that reached createZshrc
    zshUninstalled  \* "no", or the RemoveZshrc option of the Uninstall call made

batchVars == <<platform, factory, caller, uninstallMode, noInteraction, sys, repo,
               appIDs, idx, results, events, exitCode, pc>>

execVars == <<dryRun, sudoAskpass, isRoot, reporterSet, last, calls, spawned, notices>>

dockerVars == <<dkOpts, dkPc, dkLog, dkInstallResult, dkResult, dkNet, dkFiles>>

sudoVars == <<broker, sudoAvailable, sudoPc, sudoAskpassScript, helper, prompts, verifies,
              created, removed, warnings, nItems, item, hasError, exitStatus>>

procVars == <<procRunner, procOpts, procPhase, child, ctxErr, expiredRunning, procEntry, token>>

\* the groups none of Spec, SpecExec, SpecDocker and SpecSudo moves
opVars == <<opApp, opPlatform, opKind, opOpts, opSilent, opInstalled, opStored, opStatus,
            opPc, opLog, opRemoved, opResult>>

spinVars == <<spinnerActive, spinnerStale, spinPc, callerPc, term>>

fsVars == <<fsDryRun, fsDisk, fsDisk0, fsReported, fsOps>>

tuiVars == <<tuiState, tuiInstalled, tuiUninstall, modeIndex, appIndex, selectedApps,
             tuiJob, tuiCmd, tuiMsg, tuiCounts, spinnerFrame, tuiQuit>>

macVars == <<macImpl, macDry, macPc, macDefers, macLog, macTmp, macCreated, macMounted,
             macOk>>

zshVars == <<zshDry, zshFiles, zshOrig, zshDir, zshInstalls, zshUninstalled>>

lateVars == <<tuiVars, macVars, zshVars>>

extraVars == <<procVars, opVars, spinVars, fsVars, lateVars>>

vars == <<batchVars, execVars, dockerVars, sudoVars, extraVars>>

\* everything but the batch orchestrator's variables
nonBatch == <<execVars, dockerVars, sudoVars, extraVars>>

\* everything but the runner's variables
nonExec == <<batchVars, dockerVars, sudoVars, extraVars>>

\* ------------------------------------------------------------------ bounds

\* longest selection handed to a batch
MaxSel == 3

\* number of runner calls followed
MaxCalls == 2

\* longest selection handed to runInstallations
MaxItems == 2

\* the longest record of terminal writes and returned calls that is followed
MaxTerm == 6

\* the filesystem mutations one operation requests at most
MaxFsOps == 2

\* the entries of Model.apps, and the ticks counted while installing
MaxApps == 3
MaxTicks == 2

\* the Oh My Zsh installs made before the uninstall
MaxInstalls == 3

\* ------------------------------------------------------------------ catalog

\* Container.initializeApps: the applications saved in the repository
Catalog == {"docker", "vscode", "neovim", "neovim-config", "zsh", "oh-my-zsh", "nerd-font"}

\* the identifiers the model draws selections from
SelIDs == {"docker", "vscode", "neovim"}

Platforms == {"macos", "debian", "other"}

StatusNotInstalled == "NotInstalled"
StatusInstalled == "Installed"
StatusUpdateAvailable == "UpdateAvailable"

\* AppStatus.IsInstalled
IsInstalled(s) == s = StatusInstalled \/ s = StatusUpdateAvailable

\* the platform check of the per-application strategy constructors
SupportsPlatform(p) == p = "macos" \/ p = "debian"

\* InstallerFactory.GetInstaller (all seven applications): "ok", "unknown", "unsupported"
GetInstallerV2(id, p) ==
    CASE id \in {"docker", "vscode", "neovim", "zsh", "nerd-font"} ->
            IF SupportsPlatform(p) THEN "ok" ELSE "unsupported"
      [] id \in {"neovim-config", "oh-my-zsh"} -> "ok"
      [] OTHER -> "unknown"

\* InstallerFactory.GetInstaller of the build that only knows docker and vscode
GetInstallerV1(id, p) ==
    CASE id \in {"docker", "vscode"} ->
            IF SupportsPlatform(p) THEN "ok" ELSE "unsupported"
      [] OTHER -> "unknown"

GetInstaller(id) ==
    IF factory = "v1" THEN GetInstallerV1(id, platform) ELSE GetInstallerV2(id, platform)

\* InstallerStrategy.CheckStatus: probes the machine
CheckStatus(id) == IF sys[id] THEN StatusInstalled ELSE StatusNotInstalled

\* result.NewSuccess / result.NewFailure
NewSuccess(msg) == [success |-> TRUE, message |-> msg]
NewFailure(msg) == [success |-> FALSE, message |-> msg]

EmptyMap == [x \in {} |-> NewSuccess("")]

\* sequences without repetition over S, of length 1..n
RECURSIVE DistinctSeqs(_, _)
DistinctSeqs(S, n) ==
    IF n = 0 \/ S = {} THEN {<<>>}
    ELSE {<<>>} \cup UNION {{<<x>> \o t : t \in DistinctSeqs(S \ {x}, n - 1)} : x \in S}

Range(s) == {s[i] : i \in DOMAIN s}

\* ------------------------------------------------------------------ process runner

\* the relay helper's path handed to SetSudoAskpass
HelperPath == "/tmp/askpass.sh"

\* what the operating system does with a started command
Procs == {"exit0", "exitN", "timeout", "nostart"}

\* raw standard output of a command; TrimSpace strips the surrounding white space
RawOutputs == {"", "out", " out\n"}
TrimSpace(o) == IF o = " out\n" THEN "out" ELSE o

\* secondary.CommandOptions after the functional options were applied:
\* WithSudoNonInteractive sets Sudo too
OptionSets ==
    {o \in [sudo : BOOLEAN, sudoNI : BOOLEAN, interactive : BOOLEAN,
            skipDryRun : BOOLEAN, description : BOOLEAN] : o.sudoNI => o.sudo}

\* runOptions of the legacy Runner: no non-interactive sudo, no terminal mode,
\* no way to opt out of the dry run
RunOptionSets ==
    {o \in OptionSets : ~o.sudoNI /\ ~o.interactive /\ ~o.skipDryRun}

NoCall ==
    [runner |-> "none", opts |-> [sudo |-> FALSE, sudoNI |-> FALSE, interactive |-> FALSE,
                                  skipDryRun |-> FALSE, description |-> FALSE],
     prefix |-> "", bypassed |-> FALSE, started |-> FALSE, attached |-> FALSE,
     notice |-> FALSE, success |-> FALSE, stdout |-> "", stderr |-> "", exitCode |-> 0,
     error |-> "none"]

\* "Add sudo if needed": the elevation prefix put before the command
SudoPrefix(root, askpass, o) ==
    IF o.sudo /\ ~root
    THEN (IF o.sudoNI THEN "sudo -n" ELSE IF askpass # "" THEN "sudo -A" ELSE "sudo")
    ELSE ""

\* mutant: an elevated command escapes the dry run
DryRunBypassNotForSudo(dry, o) == dry /\ ~o.skipDryRun /\ ~o.sudo

\* if e.dryRun && !options.SkipDryRun
DryRunBypass(dry, o) == dry /\ ~o.skipDryRun

\* "For interactive or sudo commands without askpass, connect to terminal"
Attached(askpass, o) == o.interactive \/ (o.sudo /\ ~o.sudoNI /\ askpass = "")

\* the exit code reported for a failed cmd.Run(): the process's own code when it
\* exited, -1 when it was killed or never started
FailureExitCode(proc) == IF proc = "exitN" THEN 1 ELSE -1

\* ShellExecutor.Execute
ShellExecute(dry, askpass, root, rep, o, proc, out) ==
    LET base == [runner |-> "shell", opts |-> o, prefix |-> SudoPrefix(root, askpass, o)]
    IN IF DryRunBypass(dry, o)
       THEN base @@ [bypassed |-> TRUE, started |-> FALSE, attached |-> FALSE,
                     notice |-> rep, success |-> TRUE, stdout |-> "", stderr |-> "",
                     exitCode |-> 0, error |-> "none"]
       ELSE IF proc = "timeout"
       THEN base @@ [bypassed |-> FALSE, started |-> TRUE, attached |-> Attached(askpass, o),
                     notice |-> FALSE, success |-> FALSE, stdout |-> "",
                     stderr |-> "Command timed out", exitCode |-> -1,
                     error |-> "deadline exceeded"]
       ELSE IF proc # "exit0"
       THEN base @@ [bypassed |-> FALSE, started |-> proc # "nostart",
                     attached |-> Attached(askpass, o), notice |-> FALSE,
                     success |-> FALSE,
                     stdout |-> IF Attached(askpass, o) THEN "" ELSE out,
                     stderr |-> "err", exitCode |-> FailureExitCode(proc),
                     error |-> proc]
       ELSE base @@ [bypassed |-> FALSE, started |-> TRUE, attached |-> Attached(askpass, o),
                     notice |-> FALSE, success |-> TRUE,
                     stdout |-> IF Attached(askpass, o) THEN "" ELSE TrimSpace(out),
                     stderr |-> "", exitCode |-> 0, error |-> "none"]

\* Runner.Run of the legacy runner
RunnerRun(dry, root, o, proc, out) ==
    LET base == [runner |-> "legacy", opts |-> o,
                 prefix |-> IF o.sudo /\ ~root THEN "sudo" ELSE "", attached |-> FALSE]
    IN IF dry
       THEN base @@ [bypassed |-> TRUE, started |-> FALSE, notice |-> TRUE,
                     success |-> TRUE, stdout |-> "", stderr |-> "", exitCode |-> 0,
                     error |-> "none"]
       ELSE IF proc = "timeout"
       THEN base @@ [bypassed |-> FALSE, started |-> TRUE, notice |-> FALSE,
                     success |-> FALSE, stdout |-> "", stderr |-> "Command timed out",
                     exitCode |-> -1, error |-> "deadline exceeded"]
       ELSE IF proc # "exit0"
       THEN base @@ [bypassed |-> FALSE, started |-> proc # "nostart", notice |-> FALSE,
                     success |-> FALSE, stdout |-> "", stderr |-> "err",
                     exitCode |-> FailureExitCode(proc), error |-> proc]
       ELSE base @@ [bypassed |-> FALSE, started |-> TRUE, notice |-> FALSE,
                     success |-> TRUE, stdout |-> TrimSpace(out), stderr |-> "",
                     exitCode |-> 0, error |-> "none"]

\* the runner's counters after the call recorded in r
Account(r) ==
    /\ last' = r
    /\ calls' = calls + 1
    /\ spawned' = spawned + (IF r.started THEN 1 ELSE 0)
    /\ notices' = notices + (IF r.notice THEN 1 ELSE 0)

\* one call of ShellExecutor.Execute with any options, on any command
Execute ==
    /\ calls < MaxCalls
    /\ \E o \in OptionSets, proc \in Procs, out \in RawOutputs :
          Account(ShellExecute(dryRun, sudoAskpass, isRoot, reporterSet, o, proc, out))
    /\ UNCHANGED <<dryRun, sudoAskpass, isRoot, reporterSet>>
    /\ UNCHANGED nonExec

\* one call of the legacy Runner.Run
Run ==
    /\ calls < MaxCalls
    /\ \E o \in RunOptionSets, proc \in Procs, out \in RawOutputs :
          Account(RunnerRun(dryRun, isRoot, o, proc, out))
    /\ UNCHANGED <<dryRun, sudoAskpass, isRoot, reporterSet>>
    /\ UNCHANGED nonExec

\* ShellExecutor.SetSudoAskpass
SetSudoAskpass ==
    /\ \E path \in {"", HelperPath} :
          /\ path # sudoAskpass
          /\ sudoAskpass' = path
    /\ UNCHANGED <<dryRun, isRoot, reporterSet, last, calls, spawned, notices>>
    /\ UNCHANGED nonExec

\* the runner as the batch orchestrator's model leaves it
ExecIdle ==
    /\ dryRun = FALSE
    /\ sudoAskpass = ""
    /\ isRoot = FALSE
    /\ reporterSet = TRUE
    /\ last = NoCall
    /\ calls = 0
    /\ spawned = 0
    /\ notices = 0

\* NewShellExecutor(dryRun, reporter) as NewContainer wires it
ExecInit ==
    /\ dryRun \in BOOLEAN
    /\ sudoAskpass = ""
    /\ isRoot \in BOOLEAN
    /\ reporterSet = TRUE
    /\ last = NoCall
    /\ calls = 0
    /\ spawned = 0
    /\ notices = 0

\* the batch orchestrator's variables while only the runner is exercised
BatchIdle ==
    /\ platform = "debian"
    /\ factory = "v2"
    /\ caller = "cli"
    /\ uninstallMode = FALSE
    /\ noInteraction = TRUE
    /\ sys = [a \in Catalog |-> FALSE]
    /\ repo = [a \in Catalog |-> StatusNotInstalled]
    /\ appIDs = <<>>
    /\ idx = 0
    /\ results = EmptyMap
    /\ events = <<>>
    /\ exitCode = -1
    /\ pc = "idle"

\* result.InstallResult with the fields NewSuccess and NewFailure leave at zero
InstallResult(r) == r @@ [version |-> "", warnings |-> <<>>]

\* the Docker install's variables while it is not exercised
DockerIdle ==
    /\ dkOpts = [addToGroup |-> TRUE, startOnBoot |-> TRUE, username |-> "dev"]
    /\ dkPc = "idle"
    /\ dkLog = <<>>
    /\ dkInstallResult = InstallResult(NewSuccess(""))
    /\ dkResult = InstallResult(NewFailure("pending"))
    /\ dkNet = 0
    /\ dkFiles = {}

\* no helper file on disk
NoFile == [exists |-> FALSE, mode |-> "none", content |-> "none"]

\* the privilege broker's variables while it is not exercised
SudoIdle ==
    /\ broker = "askpass"
    /\ sudoAvailable = TRUE
    /\ sudoPc = "idle"
    /\ sudoAskpassScript = ""
    /\ helper = NoFile
    /\ prompts = 0
    /\ verifies = 0
    /\ created = 0
    /\ removed = 0
    /\ warnings = {}
    /\ nItems = 0
    /\ item = 0
    /\ hasError = FALSE
    /\ exitStatus = -1

\* no command is inside the runner
ProcIdle ==
    /\ procRunner = "shell"
    /\ procOpts = NoCall.opts
    /\ procPhase = "idle"
    /\ child = "none"
    /\ ctxErr = "nil"
    /\ expiredRunning = FALSE
    /\ procEntry = "execute"
    /\ token = "live"

\* no use-case operation is followed
OpIdle ==
    /\ opApp = "docker"
    /\ opPlatform = "debian"
    /\ opKind = "install"
    /\ opOpts = [noInteraction |-> TRUE, removeConfig |-> FALSE, removeData |-> FALSE,
                 removeCache |-> FALSE, removeZshrc |-> FALSE, removeOhMyZsh |-> FALSE]
    /\ opSilent = TRUE
    /\ opInstalled = FALSE
    /\ opStored = StatusNotInstalled
    /\ opStatus = "none"
    /\ opPc = "idle"
    /\ opLog = <<>>
    /\ opRemoved = {}
    /\ opResult = NewFailure("pending")

\* NewTerminalReporter: no spinner runs
SpinIdle ==
    /\ spinnerActive = FALSE
    /\ spinnerStale = FALSE
    /\ spinPc = "none"
    /\ callerPc = "idle"
    /\ term = <<>>

\* the paths of the filesystem model
FontFile == ".local/share/fonts/MesloLGS Nerd Font.ttf"
FontZip == "/tmp/nerd-font.zip"
InitLua == ".config/nvim/init.lua"
FsPaths == {FontFile, FontZip, InitLua}

\* NewLocalFileSystem: nothing was requested
FsIdle ==
    /\ fsDryRun = FALSE
    /\ fsDisk = [p \in FsPaths |-> "absent"]
    /\ fsDisk0 = fsDisk
    /\ fsReported = <<>>
    /\ fsOps = 0

\* NewModel: the main screen, nothing selected, no command started
TuiIdle ==
    /\ tuiState = "Main"
    /\ tuiInstalled = [a \in 0..(MaxApps - 1) |-> FALSE]
    /\ tuiUninstall = FALSE
    /\ modeIndex = 0
    /\ appIndex = 0
    /\ selectedApps = {}
    /\ tuiJob = <<>>
    /\ tuiCmd = "none"
    /\ tuiMsg = [successCount |-> 0, failureCount |-> 0]
    /\ tuiCounts = [successCount |-> 0, failureCount |-> 0]
    /\ spinnerFrame = 0
    /\ tuiQuit = FALSE

\* no Docker Desktop install has started
MacIdle ==
    /\ macImpl = "v3"
    /\ macDry = FALSE
    /\ macPc = "idle"
    /\ macDefers = <<>>
    /\ macLog = <<>>
    /\ macTmp = FALSE
    /\ macCreated = FALSE
    /\ macMounted = FALSE
    /\ macOk = FALSE

\* no Oh My Zsh operation has run
ZshIdle ==
    /\ zshDry = FALSE
    /\ zshFiles = [zshrc |-> "absent", backup |-> "absent"]
    /\ zshOrig = "absent"
    /\ zshDir = FALSE
    /\ zshInstalls = 0
    /\ zshUninstalled = "no"

LateIdle == TuiIdle /\ MacIdle /\ ZshIdle

ExtraIdle == ProcIdle /\ OpIdle /\ SpinIdle /\ FsIdle /\ LateIdle

InitExec == ExecInit /\ BatchIdle /\ DockerIdle /\ SudoIdle /\ ExtraIdle

NextExec ==
    \/ Execute
    \/ Run
    \/ SetSudoAskpass

SpecExec == InitExec /\ [][NextExec]_vars

\* ------------------------------------------------------------------ batch orchestrator

\* mutant: the notifications walk the selection from its end
StepNoticeReversed(i) ==
    [kind |-> "step", id |-> appIDs[Len(appIDs) + 1 - i], current |-> i,
     total |-> Len(appIDs), how |-> "-"]

\* the step-progress notification of iteration i: uc.reporter.Step(i+1, len(appIDs), ...)
StepNotice(i) ==
    [kind |-> "step", id |-> appIDs[i], current |-> i, total |-> Len(appIDs), how |-> "-"]

\* the call uc.Execute(ctx, appID, opts) of iteration i, and how it went
ExecCall(i, how) ==
    [kind |-> "exec", id |-> appIDs[i], current |-> i, total |-> Len(appIDs), how |-> how]

\* InstallApplicationUseCase.Execute: what it returns and whether it called the
\* strategy's Install. confirm is the user's answer to the reinstall question,
\* outcome what the strategy's Install does ("ok", "fail", "err").
InstallExecute(id, confirm, outcome) ==
    IF id \notin DOMAIN repo
    THEN [err |-> TRUE, res |-> NewFailure("application not found"), invoked |-> FALSE,
          how |-> "notfound"]
    ELSE IF GetInstaller(id) # "ok"
    THEN [err |-> TRUE, res |-> NewFailure("no installer"), invoked |-> FALSE,
          how |-> "noinstaller"]
    ELSE IF IsInstalled(CheckStatus(id)) /\ ~noInteraction /\ ~confirm
    THEN [err |-> FALSE, res |-> NewSuccess("Deja installe"), invoked |-> FALSE,
          how |-> "declined"]
    ELSE IF outcome = "err"
    THEN [err |-> TRUE, res |-> NewFailure("install error"), invoked |-> TRUE, how |-> "err"]
    ELSE IF outcome = "fail"
    THEN [err |-> FALSE, res |-> NewFailure("Echec"), invoked |-> TRUE, how |-> "fail"]
    ELSE [err |-> FALSE, res |-> NewSuccess("installe"), invoked |-> TRUE, how |-> "ok"]

\* UninstallApplicationUseCase.Execute
UninstallExecute(id, confirm, outcome) ==
    IF id \notin DOMAIN repo
    THEN [err |-> TRUE, res |-> NewFailure("application not found"), invoked |-> FALSE,
          how |-> "notfound"]
    ELSE IF GetInstaller(id) # "ok"
    THEN [err |-> TRUE, res |-> NewFailure("no installer"), invoked |-> FALSE,
          how |-> "noinstaller"]
    ELSE IF ~IsInstalled(CheckStatus(id))
    THEN [err |-> FALSE, res |-> NewSuccess("Application non installee"), invoked |-> FALSE,
          how |-> "absent"]
    ELSE IF ~noInteraction /\ ~confirm
    THEN [err |-> FALSE, res |-> NewSuccess("Desinstallation annulee"), invoked |-> FALSE,
          how |-> "cancelled"]
    ELSE IF outcome = "err"
    THEN [err |-> TRUE, res |-> NewFailure("uninstall error"), invoked |-> TRUE, how |-> "err"]
    ELSE IF outcome = "fail"
    THEN [err |-> FALSE, res |-> NewFailure("Echec"), invoked |-> TRUE, how |-> "fail"]
    ELSE [err |-> FALSE, res |-> NewSuccess("desinstalle"), invoked |-> TRUE, how |-> "ok"]

\* the entry ExecuteMultiple stores for one Execute call:
\* result.NewFailure(err.Error()) on an error, the strategy's result otherwise
BatchEntry(r) == IF r.err THEN NewFailure(r.res.message) ELSE r.res

\* mutant: an Execute call that returned an error leaves no entry
StoreResultDropErrors(res, id, r) == IF r.err THEN res ELSE (id :> r.res) @@ res

\* results[appID.String()] = ... : the map after the Execute call r for id
StoreResult(res, id, r) == (id :> BatchEntry(r)) @@ res

\* mutant: the loop returns at the first failed application
AfterIterationAbortOnFailure(i, e) ==
    IF ~e.success \/ i >= Len(appIDs) THEN "summary" ELSE "step"

\* where the loop of ExecuteMultiple goes after iteration i stored entry e:
\* the range loop has no break and no return, whatever e is
AfterIteration(i, e) == IF i < Len(appIDs) THEN "step" ELSE "summary"

\* mutant: a failed application is tried again
NextIndexRetryFailed(i, e) == IF e.success THEN i + 1 ELSE i

\* the index after iteration i + 1 stored entry e: "for i, appID := range appIDs"
\* advances by one whatever the entry is
NextIndex(i, e) == i + 1

\* mutant: the repository is updated whenever the strategy returned without error
StoredAfterAnyResult(rp, id, r, st) ==
    IF r.invoked /\ ~r.err THEN [rp EXCEPT ![id] = st] ELSE rp

\* the repository after Execute got r from the strategy: "if installResult.Success()
\* { uc.repository.UpdateStatus(ctx, appID, st, ...) }", reached only when the
\* strategy was called and returned no error
StoredAfter(rp, id, r, st) ==
    IF r.invoked /\ ~r.err /\ r.res.success THEN [rp EXCEPT ![id] = st] ELSE rp

\* ListApplicationsUseCase.Execute: refresh the stored status of every
\* application whose strategy resolves
ListApplications ==
    /\ pc = "list"
    /\ repo' = [a \in Catalog |->
                  IF GetInstaller(a) # "ok" THEN repo[a] ELSE CheckStatus(a)]
    /\ pc' = "select"
    /\ UNCHANGED <<platform, factory, caller, uninstallMode, noInteraction, sys,
                   appIDs, idx, results, events, exitCode>>
    /\ UNCHANGED nonBatch

\* the applications the caller offers for selection (getSelectableApps,
\* runUninstallMode): every application to install, the installed ones to uninstall
Selectable ==
    IF uninstallMode THEN {a \in SelIDs : IsInstalled(repo[a])} ELSE SelIDs

\* the caller confirms a non-empty selection and starts the batch; an empty
\* selection ends the run with status 0 before any batch
SelectApps ==
    /\ pc = "select"
    /\ \E sel \in DistinctSeqs(Selectable, MaxSel) :
          /\ appIDs' = sel
          /\ pc' = IF sel = <<>> THEN "done" ELSE "step"
          /\ exitCode' = IF sel = <<>> THEN 0 ELSE exitCode
    /\ UNCHANGED <<platform, factory, caller, uninstallMode, noInteraction, sys,
                   repo, idx, results, events>>
    /\ UNCHANGED nonBatch

\* ExecuteMultiple, head of iteration idx+1: the step notification
ReporterStep ==
    /\ pc = "step"
    /\ events' = Append(events, StepNotice(idx + 1))
    /\ pc' = "exec"
    /\ UNCHANGED <<platform, factory, caller, uninstallMode, noInteraction, sys,
                   repo, appIDs, idx, results, exitCode>>
    /\ UNCHANGED nonBatch

\* ExecuteMultiple, body of iteration idx+1 in install mode
ExecuteInstall ==
    /\ pc = "exec"
    /\ ~uninstallMode
    /\ \E confirm \in BOOLEAN, outcome \in {"ok", "fail", "err"} :
          LET id == appIDs[idx + 1]
              r == InstallExecute(id, confirm, outcome)
              done == r.invoked /\ ~r.err /\ r.res.success
          IN /\ events' = Append(events, ExecCall(idx + 1, r.how))
             /\ results' = StoreResult(results, id, r)
             /\ sys' = IF done THEN [sys EXCEPT ![id] = TRUE] ELSE sys
             /\ repo' = StoredAfter(repo, id, r, StatusInstalled)
             /\ idx' = NextIndex(idx, BatchEntry(r))
             /\ pc' = AfterIteration(idx + 1, BatchEntry(r))
    /\ UNCHANGED <<platform, factory, caller, uninstallMode, noInteraction,
                   appIDs, exitCode>>
    /\ UNCHANGED nonBatch

\* ExecuteMultiple, body of iteration idx+1 in uninstall mode
ExecuteUninstall ==
    /\ pc = "exec"
    /\ uninstallMode
    /\ \E confirm \in BOOLEAN, outcome \in {"ok", "fail", "err"} :
          LET id == appIDs[idx + 1]
              r == UninstallExecute(id, confirm, outcome)
              done == r.invoked /\ ~r.err /\ r.res.success
          IN /\ events' = Append(events, ExecCall(idx + 1, r.how))
             /\ results' = StoreResult(results, id, r)
             /\ sys' = IF done THEN [sys EXCEPT ![id] = FALSE] ELSE sys
             /\ repo' = StoredAfter(repo, id, r, StatusNotInstalled)
             /\ idx' = NextIndex(idx, BatchEntry(r))
             /\ pc' = AfterIteration(idx + 1, BatchEntry(r))
    /\ UNCHANGED <<platform, factory, caller, uninstallMode, noInteraction,
                   appIDs, exitCode>>
    /\ UNCHANGED nonBatch

\* number of selected applications whose entry exists and is a success
\* (the successCount loop of showFinalSummary / showUninstallFinalSummary)
RECURSIVE SuccessCount(_, _)
SuccessCount(apps, res) ==
    IF apps = <<>> THEN 0
    ELSE (IF Head(apps) \in DOMAIN res /\ res[Head(apps)].success THEN 1 ELSE 0)
         + SuccessCount(Tail(apps), res)

\* App.showFinalSummary (cli): 0 when no selected application failed, 1 otherwise
showFinalSummary(apps, res) ==
    IF Len(apps) - SuccessCount(apps, res) = 0 THEN 0 ELSE 1

\* App.executeOperations (tui): the map is discarded, only the error of
\* ExecuteMultiple (always nil) decides
executeOperations(apps, res) == 0

\* the caller turns the finished batch into the process status
FinalSummary ==
    /\ pc = "summary"
    /\ exitCode' = IF caller = "cli" THEN showFinalSummary(appIDs, results)
                   ELSE executeOperations(appIDs, results)
    /\ pc' = "done"
    /\ UNCHANGED <<platform, factory, caller, uninstallMode, noInteraction, sys,
                   repo, appIDs, idx, results, events>>
    /\ UNCHANGED nonBatch

BatchInit ==
    /\ platform \in Platforms
    /\ factory \in {"v1", "v2"}
    /\ caller \in {"cli", "tui"}
    /\ uninstallMode \in BOOLEAN
    /\ noInteraction \in BOOLEAN
    \* the cli refuses a non-interactive uninstall before any batch
    /\ ~(caller = "cli" /\ uninstallMode /\ noInteraction)
    /\ sys \in [Catalog -> BOOLEAN]
    /\ \A a \in Catalog \ SelIDs : ~sys[a]
    /\ repo = [a \in Catalog |-> StatusNotInstalled]
    /\ appIDs = <<>>
    /\ idx = 0
    /\ results = EmptyMap
    /\ events = <<>>
    /\ exitCode = -1
    /\ pc = "list"

Init == BatchInit /\ ExecIdle /\ DockerIdle /\ SudoIdle /\ ExtraIdle

Next ==
    \/ ListApplications
    \/ SelectApps
    \/ ReporterStep
    \/ ExecuteInstall
    \/ ExecuteUninstall
    \/ FinalSummary

Spec == Init /\ [][Next]_vars

\* ------------------------------------------------------------------ Docker on Debian

\* filepath.Join(os.TempDir(), "docker.gpg"), gpgKeyPath, repoFile
TmpGPG == "/tmp/docker.gpg"
GpgKeyPath == "/etc/apt/keyrings/docker.asc"
RepoFile == "/etc/apt/sources.list.d/docker.list"

\* the warnings UbuntuStrategy.Install adds to installResult
WarnUpdate == "Echec de la mise a jour de l'index"
WarnRelogin == "Deconnectez-vous et reconnectez-vous pour utiliser Docker sans sudo"
WarnVerify == "L'installation semble terminee mais la verification a echoue"

\* the failure messages UbuntuStrategy.Install returns
FailPrereq == "Echec de l'installation des prerequis"
\* mutant: the download step fails with the message of the package installation
FailDownloadGeneric == "Echec de l'installation de Docker"

FailDownload == "Echec du telechargement de la cle GPG"
FailInstall == "Echec de l'installation de Docker"

\* InstallResult.AddWarning, InstallResult.WithVersion
AddWarning(r, w) == [r EXCEPT !.warnings = Append(@, w)]
WithVersion(r, v) == [r EXCEPT !.version = v]

\* nothing returned yet
NoResult == InstallResult(NewFailure("pending"))

\* secondary.CommandOptions with no option applied, and the functional options
Plain ==
    [sudo |-> FALSE, sudoNI |-> FALSE, interactive |-> FALSE, skipDryRun |-> FALSE,
     description |-> FALSE]
WithSudo(o) == [o EXCEPT !.sudo = TRUE]
WithDescription(o) == [o EXCEPT !.description = TRUE]
WithSkipDryRun(o) == [o EXCEPT !.skipDryRun = TRUE]

\* the steps of UbuntuStrategy.Install in the order the strategy writes them
DkSteps ==
    <<"remove", "prereq", "mkdir", "download", "mv", "chmod", "codename", "codename2",
      "arch", "repofile", "update", "install", "usermod", "enable", "start", "verify",
      "version">>

\* position of a step in the strategy
RECURSIVE DkIndexFrom(_, _)
DkIndexFrom(step, i) ==
    IF i > Len(DkSteps) THEN 0
    ELSE IF DkSteps[i] = step THEN i
    ELSE DkIndexFrom(step, i + 1)
DkIndex(step) == DkIndexFrom(step, 1)

\* the options each command of UbuntuStrategy.Install is run with
DkOptions(step) ==
    CASE step \in {"remove", "prereq", "update", "install"} -> WithDescription(WithSudo(Plain))
      [] step \in {"mkdir", "mv", "chmod", "repofile", "usermod", "enable", "start"} ->
            WithSudo(Plain)
      [] step = "version" -> WithSkipDryRun(Plain)
      [] OTHER -> Plain

\* Step 8 onwards: the service is configured only when StartOnBoot is set
DkAfterGroup == IF dkOpts.startOnBoot THEN "enable" ELSE "verify"

\* Step 7: usermod runs only for a named user other than root
DkAfterInstall ==
    IF dkOpts.addToGroup /\ dkOpts.username # "" /\ dkOpts.username # "root"
    THEN "usermod"
    ELSE DkAfterGroup

\* mutant: the install goes on after the prerequisites failed, and stops when the
\* package index could not be updated
DkNextAbortOnUpdate(step, ok) ==
    CASE step = "remove" -> "prereq"
      [] step = "prereq" -> "mkdir"
      [] step = "mkdir" -> "download"
      [] step = "download" -> IF ok THEN "mv" ELSE "done"
      [] step = "mv" -> "chmod"
      [] step = "chmod" -> "codename"
      [] step = "codename" -> IF ok THEN "arch" ELSE "codename2"
      [] step = "codename2" -> "arch"
      [] step = "arch" -> "repofile"
      [] step = "repofile" -> "update"
      [] step = "update" -> IF ok THEN "install" ELSE "done"
      [] step = "install" -> IF ok THEN DkAfterInstall ELSE "done"
      [] step = "usermod" -> DkAfterGroup
      [] step = "enable" -> "start"
      [] step = "start" -> "verify"
      [] step = "verify" -> IF ok THEN "version" ELSE "done"
      [] OTHER -> "done"

\* mutant: the package index is updated after the packages are installed
DkNextUpdateAfterInstall(step, ok) ==
    CASE step = "remove" -> "prereq"
      [] step = "prereq" -> IF ok THEN "mkdir" ELSE "done"
      [] step = "mkdir" -> "download"
      [] step = "download" -> IF ok THEN "mv" ELSE "done"
      [] step = "mv" -> "chmod"
      [] step = "chmod" -> "codename"
      [] step = "codename" -> IF ok THEN "arch" ELSE "codename2"
      [] step = "codename2" -> "arch"
      [] step = "arch" -> "repofile"
      [] step = "repofile" -> "install"
      [] step = "update" -> DkAfterInstall
      [] step = "install" -> IF ok THEN "update" ELSE "done"
      [] step = "usermod" -> DkAfterGroup
      [] step = "enable" -> "start"
      [] step = "start" -> "verify"
      [] step = "verify" -> IF ok THEN "version" ELSE "done"
      [] OTHER -> "done"

\* the step that follows step when it ended with outcome ok
DkNext(step, ok) ==
    CASE step = "remove" -> "prereq"
      [] step = "prereq" -> IF ok THEN "mkdir" ELSE "done"
      [] step = "mkdir" -> "download"
      [] step = "download" -> IF ok THEN "mv" ELSE "done"
      [] step = "mv" -> "chmod"
      [] step = "chmod" -> "codename"
      [] step = "codename" -> IF ok THEN "arch" ELSE "codename2"
      [] step = "codename2" -> "arch"
      [] step = "arch" -> "repofile"
      [] step = "repofile" -> "update"
      [] step = "update" -> "install"
      [] step = "install" -> IF ok THEN DkAfterInstall ELSE "done"
      [] step = "usermod" -> DkAfterGroup
      [] step = "enable" -> "start"
      [] step = "start" -> "verify"
      [] step = "verify" -> IF ok THEN "version" ELSE "done"
      [] OTHER -> "done"

\* BaseStrategy.Run: the command goes through ShellExecutor.Execute
DkExecute(step, proc, out) ==
    ShellExecute(dryRun, sudoAskpass, isRoot, reporterSet, DkOptions(step), proc, out)

\* what every command of the install does to the runner and to the log
DkRun(step, r) ==
    /\ Account(r)
    /\ dkLog' = Append(dkLog, step)
    /\ UNCHANGED <<dryRun, sudoAskpass, isRoot, reporterSet, dkOpts, dkNet>>
    /\ UNCHANGED <<batchVars, sudoVars, extraVars>>

\* the commands whose outcome Install only uses to pick the next command:
\* apt-get remove, mkdir, chmod, lsb_release and its fallback, dpkg, systemctl
DkCommand ==
    /\ dkPc \in {"remove", "mkdir", "chmod", "codename", "codename2", "arch",
                 "enable", "start"}
    /\ \E proc \in Procs :
          LET r == DkExecute(dkPc, proc, "out")
          IN /\ DkRun(dkPc, r)
             /\ dkPc' = DkNext(dkPc, r.success)
    /\ UNCHANGED <<dkInstallResult, dkResult, dkFiles>>

\* Step 2: apt-get install of the prerequisites
DkPrereq ==
    /\ dkPc = "prereq"
    /\ \E proc \in Procs :
          LET r == DkExecute("prereq", proc, "out")
          IN /\ DkRun("prereq", r)
             /\ dkPc' = DkNext("prereq", r.success)
             /\ dkResult' = IF r.success THEN dkResult
                            ELSE InstallResult(NewFailure(FailPrereq))
    /\ UNCHANGED <<dkInstallResult, dkFiles>>

\* Downloader.Download: what the request and the local file do
DownloadOutcomes == {"ok", "transport", "status", "create", "copy"}

\* Step 3: HTTPClient.Download of the repository key to TmpGPG; the downloader
\* does not know the dry-run flag
DkDownload ==
    /\ dkPc = "download"
    /\ \E d \in DownloadOutcomes :
          /\ dkNet' = dkNet + 1
          /\ dkFiles' = IF d \in {"ok", "copy"} THEN dkFiles \cup {TmpGPG} ELSE dkFiles
          /\ dkPc' = DkNext("download", d = "ok")
          /\ dkResult' = IF d = "ok" THEN dkResult
                         ELSE InstallResult(NewFailure(FailDownload))
    /\ dkLog' = Append(dkLog, "download")
    /\ UNCHANGED <<dkOpts, dkInstallResult>>
    /\ UNCHANGED <<batchVars, execVars, sudoVars, extraVars>>

\* mv TmpGPG GpgKeyPath
DkMoveKey ==
    /\ dkPc = "mv"
    /\ \E proc \in Procs :
          LET r == DkExecute("mv", proc, "")
          IN /\ DkRun("mv", r)
             /\ dkPc' = DkNext("mv", r.success)
             /\ dkFiles' = IF r.started /\ r.success /\ TmpGPG \in dkFiles
                           THEN (dkFiles \ {TmpGPG}) \cup {GpgKeyPath}
                           ELSE dkFiles
    /\ UNCHANGED <<dkInstallResult, dkResult>>

\* bash -c "echo ... > RepoFile"
DkRepoFile ==
    /\ dkPc = "repofile"
    /\ \E proc \in Procs :
          LET r == DkExecute("repofile", proc, "")
          IN /\ DkRun("repofile", r)
             /\ dkPc' = DkNext("repofile", r.success)
             /\ dkFiles' = IF r.started /\ r.success THEN dkFiles \cup {RepoFile}
                           ELSE dkFiles
    /\ UNCHANGED <<dkInstallResult, dkResult>>

\* Step 5: apt-get update; a failure is only a warning
DkUpdate ==
    /\ dkPc = "update"
    /\ \E proc \in Procs :
          LET r == DkExecute("update", proc, "out")
          IN /\ DkRun("update", r)
             /\ dkPc' = DkNext("update", r.success)
             /\ dkInstallResult' = IF r.success THEN dkInstallResult
                                   ELSE AddWarning(dkInstallResult, WarnUpdate)
    /\ UNCHANGED <<dkResult, dkFiles>>

\* Step 6: apt-get install of the Docker packages
DkInstallPackages ==
    /\ dkPc = "install"
    /\ \E proc \in Procs :
          LET r == DkExecute("install", proc, "out")
          IN /\ DkRun("install", r)
             /\ dkPc' = DkNext("install", r.success)
             /\ dkResult' = IF r.success THEN dkResult
                            ELSE InstallResult(NewFailure(FailInstall))
    /\ UNCHANGED <<dkInstallResult, dkFiles>>

\* Step 7: usermod -aG docker, then the warning to log in again
DkUsermod ==
    /\ dkPc = "usermod"
    /\ \E proc \in Procs :
          LET r == DkExecute("usermod", proc, "")
          IN /\ DkRun("usermod", r)
             /\ dkPc' = DkNext("usermod", r.success)
    /\ dkInstallResult' = AddWarning(dkInstallResult, WarnRelogin)
    /\ UNCHANGED <<dkResult, dkFiles>>

\* Verify: docker --version through Run; on failure Install returns installResult
\* with one more warning
DkVerify ==
    /\ dkPc = "verify"
    /\ \E proc \in Procs :
          LET r == DkExecute("verify", proc, "out")
          IN /\ DkRun("verify", r)
             /\ dkPc' = DkNext("verify", r.success)
             /\ dkInstallResult' = IF r.success THEN dkInstallResult
                                   ELSE AddWarning(dkInstallResult, WarnVerify)
             /\ dkResult' = IF r.success THEN dkResult
                            ELSE AddWarning(dkInstallResult, WarnVerify)
    /\ UNCHANGED dkFiles

\* GetCommandVersion("docker"), which opts out of the dry run, then
\* NewSuccess(...).WithVersion(version)
DkVersion ==
    /\ dkPc = "version"
    /\ \E proc \in Procs, out \in RawOutputs :
          LET r == DkExecute("version", proc, out)
          IN /\ DkRun("version", r)
             /\ dkPc' = DkNext("version", r.success)
             /\ dkResult' = WithVersion(InstallResult(NewSuccess("Docker installe avec succes")),
                                        IF r.success THEN TrimSpace(r.stdout) ELSE "")
    /\ UNCHANGED <<dkInstallResult, dkFiles>>

\* the install starts on a machine with any options, as any user
DockerInit ==
    /\ dkOpts \in [addToGroup : BOOLEAN, startOnBoot : BOOLEAN,
                   username : {"", "root", "dev"}]
    /\ dkPc = "remove"
    /\ dkLog = <<>>
    /\ dkInstallResult = InstallResult(NewSuccess(""))
    /\ dkResult = NoResult
    /\ dkNet = 0
    /\ dkFiles = {}

InitDocker == ExecInit /\ DockerInit /\ BatchIdle /\ SudoIdle /\ ExtraIdle

NextDocker ==
    \/ DkCommand
    \/ DkPrereq
    \/ DkDownload
    \/ DkMoveKey
    \/ DkRepoFile
    \/ DkUpdate
    \/ DkInstallPackages
    \/ DkUsermod
    \/ DkVerify
    \/ DkVersion

SpecDocker == InitDocker /\ [][NextDocker]_vars

\* ------------------------------------------------------------------ privilege broker

\* the warnings preCacheSudo prints
WarnUnreadable == "Impossible de lire le mot de passe."
WarnIncorrect == "Mot de passe incorrect."
WarnNoSudo == "Impossible d'obtenir les droits sudo. Certaines installations peuvent échouer."

\* the permission bits of a file mode: 0600 and 0700 are what os.CreateTemp and
\* os.Chmod give the helper; 0644 and 0755 are ordinary modes of files other
\* users can read
ModeBits(mode) ==
    CASE mode = "0600" -> 384
      [] mode = "0700" -> 448
      [] mode = "0644" -> 420
      [] mode = "0755" -> 493
      [] OTHER -> 0

\* the group-read (040) or the other-read (004) bit is set
GroupOrOtherReadable(mode) ==
    \/ (ModeBits(mode) \div 32) % 2 = 1
    \/ (ModeBits(mode) \div 4) % 2 = 1

\* mutant: the temporary file is created with the mode of an ordinary file
CreatedFileWorldReadable == [exists |-> TRUE, mode |-> "0644", content |-> "empty"]

\* os.CreateTemp creates the file with mode 0600; os.Chmod(..., 0700) follows
CreatedFile == [exists |-> TRUE, mode |-> "0600", content |-> "empty"]

\* the options the installers pass: no caller uses WithSudoNonInteractive or
\* WithInteractive
CallerOptionSets == {o \in OptionSets : ~o.sudoNI /\ ~o.interactive}

\* mutant: the broker is skipped for root only
BrokerSkippedRootOnly(root, dry) == root

\* "Skip if already root or in dry-run mode"
BrokerSkipped(root, dry) == root \/ dry

\* mutant: the helper is installed whatever the verification said
AfterVerifyAlwaysCreate(ok) == "create"

\* "Verify password is correct": on failure preCacheSudo returns
AfterVerify(ok) == IF ok THEN "create" ELSE "loop"

\* mutant: cleanupSudo never removes the file
ScriptSetNever(path) == FALSE

\* if sudoAskpassScript != ""
ScriptSet(path) == path # ""

\* what the steps of the broker leave alone
SudoFrame ==
    /\ UNCHANGED <<broker, sudoAvailable, nItems, dryRun, isRoot, reporterSet>>
    /\ UNCHANGED <<batchVars, dockerVars, extraVars>>

\* preCacheSudo, up to the point where it asks or checks
PreCacheSudo ==
    /\ sudoPc = "precache"
    /\ sudoPc' = IF BrokerSkipped(isRoot, dryRun) \/ ~sudoAvailable THEN "loop"
                 ELSE IF broker = "askpass" THEN "prompt"
                 ELSE "check"
    /\ UNCHANGED <<sudoAskpassScript, helper, prompts, verifies, created, removed, warnings,
                   item, hasError, exitStatus>>
    /\ UNCHANGED <<sudoAskpass, last, calls, spawned, notices>>
    /\ SudoFrame

\* term.ReadPassword: a read error or an empty secret ends preCacheSudo
ReadPassword ==
    /\ sudoPc = "prompt"
    /\ prompts' = prompts + 1
    /\ \E input \in {"error", "empty", "secret"} :
          /\ sudoPc' = IF input = "secret" THEN "verify" ELSE "loop"
          /\ warnings' = IF input = "error" THEN warnings \cup {WarnUnreadable} ELSE warnings
    /\ UNCHANGED <<sudoAskpassScript, helper, verifies, created, removed,
                   item, hasError, exitStatus>>
    /\ UNCHANGED <<sudoAskpass, last, calls, spawned, notices>>
    /\ SudoFrame

\* sudo -S -v fed with the secret
VerifyPassword ==
    /\ sudoPc = "verify"
    /\ verifies' = verifies + 1
    /\ \E ok \in BOOLEAN :
          /\ sudoPc' = AfterVerify(ok)
          /\ warnings' = IF ok THEN warnings ELSE warnings \cup {WarnIncorrect}
    /\ UNCHANGED <<sudoAskpassScript, helper, prompts, created, removed,
                   item, hasError, exitStatus>>
    /\ UNCHANGED <<sudoAskpass, last, calls, spawned, notices>>
    /\ SudoFrame

\* os.CreateTemp("", "askpass-*.sh"); on error preCacheSudo returns
CreateTemp ==
    /\ sudoPc = "create"
    /\ \E ok \in BOOLEAN :
          /\ sudoPc' = IF ok THEN "write" ELSE "loop"
          /\ helper' = IF ok THEN CreatedFile ELSE helper
          /\ created' = IF ok THEN created + 1 ELSE created
    /\ UNCHANGED <<sudoAskpassScript, prompts, verifies, removed, warnings,
                   item, hasError, exitStatus>>
    /\ UNCHANGED <<sudoAskpass, last, calls, spawned, notices>>
    /\ SudoFrame

\* tmpFile.WriteString(script); tmpFile.Close()
WriteScript ==
    /\ sudoPc = "write"
    /\ helper' = [helper EXCEPT !.content = "script"]
    /\ sudoPc' = "publish"
    /\ UNCHANGED <<sudoAskpassScript, prompts, verifies, created, removed, warnings,
                   item, hasError, exitStatus>>
    /\ UNCHANGED <<sudoAskpass, last, calls, spawned, notices>>
    /\ SudoFrame

\* os.Chmod(name, 0700); sudoAskpassScript = name; a.runner.SetSudoAskpass(name)
PublishHelper ==
    /\ sudoPc = "publish"
    /\ helper' = [helper EXCEPT !.mode = "0700"]
    /\ sudoAskpassScript' = HelperPath
    /\ sudoAskpass' = HelperPath
    /\ sudoPc' = "loop"
    /\ UNCHANGED <<prompts, verifies, created, removed, warnings, item, hasError, exitStatus>>
    /\ UNCHANGED <<last, calls, spawned, notices>>
    /\ SudoFrame

\* sudo -n true: are the credentials already cached?
CheckCached ==
    /\ sudoPc = "check"
    /\ verifies' = verifies + 1
    /\ \E cached \in BOOLEAN : sudoPc' = IF cached THEN "loop" ELSE "sudov"
    /\ UNCHANGED <<sudoAskpassScript, helper, prompts, created, removed, warnings,
                   item, hasError, exitStatus>>
    /\ UNCHANGED <<sudoAskpass, last, calls, spawned, notices>>
    /\ SudoFrame

\* sudo -v on the terminal: sudo itself prompts; a failure is only a warning
SudoValidate ==
    /\ sudoPc = "sudov"
    /\ prompts' = prompts + 1
    /\ verifies' = verifies + 1
    /\ \E ok \in BOOLEAN :
          warnings' = IF ok THEN warnings ELSE warnings \cup {WarnNoSudo}
    /\ sudoPc' = "loop"
    /\ UNCHANGED <<sudoAskpassScript, helper, created, removed, item, hasError, exitStatus>>
    /\ UNCHANGED <<sudoAskpass, last, calls, spawned, notices>>
    /\ SudoFrame

\* one iteration of the loop of runInstallations: the item's installer runs a
\* command through the runner and the item fails when the command fails. The
\* askpass build's runner holds the helper's path the way ShellExecutor does
\* (SetSudoAskpass, then sudo -A); the other build uses the legacy Runner.Run.
InstallItem ==
    /\ sudoPc = "loop"
    /\ item < nItems
    /\ \E proc \in Procs :
          \/ /\ broker = "askpass"
             /\ \E o \in CallerOptionSets :
                   LET r == ShellExecute(dryRun, sudoAskpass, isRoot, reporterSet, o, proc, "out")
                   IN Account(r) /\ hasError' = (hasError \/ ~r.success)
          \/ /\ broker = "cache"
             /\ \E o \in RunOptionSets :
                   LET r == RunnerRun(dryRun, isRoot, o, proc, "out")
                   IN Account(r) /\ hasError' = (hasError \/ ~r.success)
    /\ item' = item + 1
    /\ UNCHANGED <<sudoPc, sudoAskpassScript, helper, prompts, verifies, created, removed,
                   warnings, exitStatus>>
    /\ UNCHANGED sudoAskpass
    /\ SudoFrame

\* the loop is over: the askpass build calls cleanupSudo, the other one does not
LoopEnd ==
    /\ sudoPc = "loop"
    /\ item = nItems
    /\ sudoPc' = IF broker = "askpass" THEN "cleanup" ELSE "exit"
    /\ UNCHANGED <<sudoAskpassScript, helper, prompts, verifies, created, removed, warnings,
                   item, hasError, exitStatus>>
    /\ UNCHANGED <<sudoAskpass, last, calls, spawned, notices>>
    /\ SudoFrame

\* cleanupSudo
CleanupSudo ==
    /\ sudoPc = "cleanup"
    /\ IF ScriptSet(sudoAskpassScript)
       THEN /\ helper' = NoFile
            /\ removed' = removed + 1
            /\ sudoAskpassScript' = ""
       ELSE UNCHANGED <<helper, removed, sudoAskpassScript>>
    /\ sudoAskpass' = ""
    /\ sudoPc' = "exit"
    /\ UNCHANGED <<prompts, verifies, created, warnings, item, hasError, exitStatus>>
    /\ UNCHANGED <<last, calls, spawned, notices>>
    /\ SudoFrame

\* the end of runInstallations: os.Exit(1) if hasError, else a normal return
ProcessExit ==
    /\ sudoPc = "exit"
    /\ exitStatus' = IF hasError THEN 1 ELSE 0
    /\ sudoPc' = "done"
    /\ UNCHANGED <<sudoAskpassScript, helper, prompts, verifies, created, removed, warnings,
                   item, hasError>>
    /\ UNCHANGED <<sudoAskpass, last, calls, spawned, notices>>
    /\ SudoFrame

\* abnormal termination while runInstallations runs (SIGINT on the terminal, a
\* panic in an installer): the process dies where it stands; cleanupSudo is an
\* ordinary call after the loop, not a deferred one, and no signal is handled
Interrupt ==
    /\ sudoPc \notin {"idle", "done", "killed"}
    /\ sudoPc' = "killed"
    /\ exitStatus' = 2
    /\ UNCHANGED <<sudoAskpassScript, helper, prompts, verifies, created, removed, warnings,
                   item, hasError>>
    /\ UNCHANGED <<sudoAskpass, last, calls, spawned, notices>>
    /\ SudoFrame

\* runInstallations is entered with a confirmed, non-empty selection
SudoInit ==
    /\ broker \in {"askpass", "cache"}
    /\ sudoAvailable \in BOOLEAN
    /\ sudoPc = "precache"
    /\ sudoAskpassScript = ""
    /\ helper = NoFile
    /\ prompts = 0
    /\ verifies = 0
    /\ created = 0
    /\ removed = 0
    /\ warnings = {}
    /\ nItems \in 1..MaxItems
    /\ item = 0
    /\ hasError = FALSE
    /\ exitStatus = -1

InitSudo == ExecInit /\ SudoInit /\ BatchIdle /\ DockerIdle /\ ExtraIdle

NextSudo ==
    \/ PreCacheSudo
    \/ ReadPassword
    \/ VerifyPassword
    \/ CreateTemp
    \/ WriteScript
    \/ PublishHelper
    \/ CheckCached
    \/ SudoValidate
    \/ InstallItem
    \/ LoopEnd
    \/ CleanupSudo
    \/ ProcessExit
    \/ Interrupt

SpecSudo == InitSudo /\ [][NextSudo]_vars

\* ------------------------------------------------------------------ one command inside the runner

\* the dry-run check of the runner that executes the command
ProcBypassed ==
    IF procRunner = "shell" THEN DryRunBypass(dryRun, procOpts) ELSE dryRun

\* the methods of the two runners that start a subprocess
Entries == {"execute", "version", "run", "interactive"}

EntryRunner(e) == IF e \in {"execute", "version"} THEN "shell" ELSE "legacy"

\* the options a method can be called with: GetCommandVersion always calls Execute
\* with WithSkipDryRun() alone
EntryOptions(e) ==
    CASE e = "execute" -> OptionSets
      [] e = "version" -> {o \in OptionSets : o.skipDryRun /\ ~o.sudo /\ ~o.interactive
                                               /\ ~o.description}
      [] OTHER -> RunOptionSets

\* whether the context the subprocess runs under derives from the caller's token:
\* Execute wraps the ctx it is given; GetCommandVersion and Runner.Run start from
\* context.Background(); RunInteractive uses exec.Command, with no context
HasToken(e) == e = "execute"

\* whether the subprocess runs under context.WithTimeout
HasDeadline(e) == e # "interactive"

\* Runner.RunInteractive: same prefix and dry-run bypass as Runner.Run, the command
\* wired to the terminal, nothing captured
RunInteractive(dry, root, o, proc) ==
    [RunnerRun(dry, root, o, proc, "") EXCEPT !.attached = ~dry, !.stderr = ""]

\* the outcome the runner builds for what it observed
ProcResult(proc, out) ==
    IF procRunner = "shell"
    THEN ShellExecute(dryRun, sudoAskpass, isRoot, reporterSet, procOpts, proc, out)
    ELSE IF procEntry = "interactive"
    THEN RunInteractive(dryRun, isRoot, procOpts, proc)
    ELSE RunnerRun(dryRun, isRoot, procOpts, proc, out)

\* mutant: the runner starts the command and does not wait for it
WaitReturnedEarly(c) == TRUE

\* cmd.Run() is cmd.Start() followed by cmd.Wait(): it returns only when the
\* subprocess has terminated or could not be started
WaitReturned(c) == c # "running"

\* what Execute sees after cmd.Run(): ctx.Err() is tested before err
Observed(c, e) == IF e = "DeadlineExceeded" THEN "timeout" ELSE c

ProcFrame ==
    /\ UNCHANGED <<dryRun, sudoAskpass, isRoot, reporterSet, procRunner, procOpts, procEntry>>
    /\ UNCHANGED <<batchVars, dockerVars, sudoVars, opVars, spinVars, fsVars, lateVars>>

\* the call up to cmd.Run(): the dry-run bypass returns at once, otherwise the
\* subprocess is started under context.WithTimeout
ProcCall ==
    /\ procPhase = "call"
    /\ IF ProcBypassed
       THEN /\ Account(ProcResult("exit0", ""))
            /\ procPhase' = "returned"
            /\ child' = child
       ELSE /\ \E ok \in BOOLEAN : child' = IF ok THEN "running" ELSE "nostart"
            /\ procPhase' = "running"
            /\ UNCHANGED <<last, calls, spawned, notices>>
    /\ UNCHANGED <<ctxErr, expiredRunning, token>>
    /\ ProcFrame

\* the subprocess exits by itself
ChildExits ==
    /\ procPhase = "running"
    /\ child = "running"
    /\ \E c \in {"exit0", "exitN"} : child' = c
    /\ UNCHANGED <<procPhase, ctxErr, expiredRunning, token, last, calls, spawned, notices>>
    /\ ProcFrame

\* the deadline of context.WithTimeout expires: exec.CommandContext kills the
\* subprocess if it still runs (the kill itself may be refused)
DeadlineExpires ==
    /\ procPhase = "running"
    /\ HasDeadline(procEntry)
    /\ ctxErr = "nil"
    /\ ctxErr' = "DeadlineExceeded"
    /\ IF child = "running"
       THEN /\ expiredRunning' = TRUE
            /\ \E killed \in BOOLEAN : child' = IF killed THEN "killed" ELSE "running"
       ELSE UNCHANGED <<child, expiredRunning>>
    /\ UNCHANGED <<procPhase, token, last, calls, spawned, notices>>
    /\ ProcFrame

\* the caller cancels its token while the runner is inside cmd.Run(): a context
\* derived from the token is cancelled and exec.CommandContext kills the
\* subprocess if it still runs (the kill itself may be refused); a context that
\* does not derive from the token notices nothing
CallerCancels ==
    /\ procPhase = "running"
    /\ token = "live"
    /\ token' = IF child = "running" THEN "cancelledRunning" ELSE "cancelled"
    /\ IF HasToken(procEntry) /\ ctxErr = "nil"
       THEN /\ ctxErr' = "Canceled"
            /\ IF child = "running"
               THEN \E killed \in BOOLEAN : child' = IF killed THEN "killed" ELSE "running"
               ELSE child' = child
       ELSE UNCHANGED <<ctxErr, child>>
    /\ UNCHANGED <<procPhase, expiredRunning, last, calls, spawned, notices>>
    /\ ProcFrame

\* cmd.Run() has returned and the runner builds its outcome
ProcReturn ==
    /\ procPhase = "running"
    /\ WaitReturned(child)
    /\ \E out \in RawOutputs : Account(ProcResult(Observed(child, ctxErr), out))
    /\ procPhase' = "returned"
    /\ UNCHANGED <<child, ctxErr, expiredRunning, token>>
    /\ ProcFrame

\* any command handed to either runner
ProcInit ==
    /\ procEntry \in Entries
    /\ procRunner = EntryRunner(procEntry)
    /\ procOpts \in EntryOptions(procEntry)
    /\ token = "live"
    /\ procPhase = "call"
    /\ child = "none"
    /\ ctxErr = "nil"
    /\ expiredRunning = FALSE

InitProc == ExecInit /\ ProcInit /\ BatchIdle /\ DockerIdle /\ SudoIdle /\ OpIdle /\ SpinIdle /\ FsIdle /\ LateIdle

NextProc ==
    \/ ProcCall
    \/ ChildExits
    \/ DeadlineExpires
    \/ CallerCancels
    \/ ProcReturn

SpecProc == InitProc /\ [][NextProc]_vars

\* the scheduler lets time pass and lets a call whose cmd.Run() can return do so;
\* nothing forces a subprocess to end by itself
SpecProcLive == SpecProc /\ WF_vars(DeadlineExpires) /\ WF_vars(ProcReturn)

\* ------------------------------------------------------------------ one use-case operation
\* InstallApplicationUseCase.Execute and UninstallApplicationUseCase.Execute on one
\* application, followed down to the strategy: its own status check, its own
\* question, its commands and the paths it hands to removal calls.

\* an identifier the catalog does not hold
UnknownID == "editor-x"

OpIDs == Catalog \cup {UnknownID}

OptionValues ==
    [noInteraction : BOOLEAN, removeConfig : BOOLEAN, removeData : BOOLEAN,
     removeCache : BOOLEAN, removeZshrc : BOOLEAN, removeOhMyZsh : BOOLEAN]

\* the options an install carries: the removal switches belong to UninstallOptions
InstallOptionValues ==
    {o \in OptionValues : ~o.removeConfig /\ ~o.removeData /\ ~o.removeCache
                          /\ ~o.removeZshrc /\ ~o.removeOhMyZsh}

\* the callers build the options from the container's flag (command line) or force
\* NoInteraction (terminal interface): a silenced prompter implies NoInteraction
Wired(o, silent) == silent => o.noInteraction

Entry(k, a) == [kind |-> k, arg |-> a]

\* CheckStatus of a strategy: a read-only probe returning (status, version)
Probe(installed) ==
    IF installed THEN [status |-> StatusInstalled, version |-> "v"]
    ELSE [status |-> StatusNotInstalled, version |-> ""]

AfterProbeInstalls(installed) == TRUE

\* the machine after CheckStatus: the probes only read (command lookups, version
\* queries, directory listings)
AfterProbe(installed) == installed

\* SurveyPrompter.Confirm with default value "non": the log entry and the answer
AutoAnswer == Entry("auto", "non")
Asked(answer) == Entry("ask", IF answer THEN "oui" ELSE "non")

\* the answers SurveyPrompter.Confirm can return for a question whose default is "non"
Answers(silent) == IF silent THEN {FALSE} ELSE BOOLEAN
ConfirmEntry(silent, answer) == IF silent THEN AutoAnswer ELSE Asked(answer)

Path(p, c) == [path |-> p, class |-> c]

\* the paths each strategy's Uninstall hands to a removal call
NeovimRemovals(o) ==
    (IF o.removeConfig THEN {Path(".config/nvim", "config")} ELSE {})
    \cup (IF o.removeData THEN {Path(".local/share/nvim", "data"),
                                Path(".local/state/nvim", "data")} ELSE {})
    \cup (IF o.removeCache THEN {Path(".cache/nvim", "cache")} ELSE {})

ConfigRemovals(o) == {Path(".config/nvim", "config")}

VSCodeRemovals(p, o) ==
    IF p = "macos"
    THEN {Path("/Applications/Visual Studio Code.app", "app")}
         \cup (IF o.removeData THEN {Path("Library/Application Support/Code", "data"),
                                     Path(".vscode", "data")} ELSE {})
    ELSE IF o.removeData THEN {Path(".config/Code", "data"), Path(".vscode", "data")} ELSE {}

DockerRemovals(p, o) ==
    IF p = "macos"
    THEN {Path("/Applications/Docker.app", "app")}
         \cup (IF o.removeData THEN {Path(".docker", "data"),
                                     Path("Library/Containers/com.docker.docker", "data"),
                                     Path("Library/Group Containers/group.com.docker", "data")}
               ELSE {})
    ELSE (IF o.removeData THEN {Path("/var/lib/docker", "data"),
                                Path("/var/lib/containerd", "data"),
                                Path("/etc/docker", "data"),
                                Path(".docker", "data")} ELSE {})
         \cup {Path("/etc/apt/sources.list.d/docker.list", "repo"),
               Path("/etc/apt/keyrings/docker.asc", "repo")}

ZshRemovals(p, o) ==
    IF p # "macos" /\ o.removeZshrc THEN {Path(".zshrc", "zshrc")} ELSE {}

OhMyZshRemovals(o) ==
    (IF o.removeOhMyZsh THEN {Path(".oh-my-zsh", "app")} ELSE {})
    \cup (IF o.removeZshrc THEN {Path(".zshrc", "zshrc")} ELSE {})

FontRemovals(p) == IF p = "macos" THEN {} ELSE {Path(".local/share/fonts", "app")}

UninstallRemovals(id, p, o) ==
    CASE id = "neovim" -> NeovimRemovals(o)
      [] id = "neovim-config" -> ConfigRemovals(o)
      [] id = "vscode" -> VSCodeRemovals(p, o)
      [] id = "docker" -> DockerRemovals(p, o)
      [] id = "zsh" -> ZshRemovals(p, o)
      [] id = "oh-my-zsh" -> OhMyZshRemovals(o)
      [] OTHER -> FontRemovals(p)

\* whether the application is gone once Uninstall ran; gone is whether the package
\* command did its work
RemainsAfterUninstall(id, p, o, gone) ==
    CASE id = "zsh" /\ p = "macos" -> TRUE
      [] id = "oh-my-zsh" -> ~o.removeOhMyZsh
      [] id = "neovim-config" -> FALSE
      [] OTHER -> ~gone

\* the outcomes of a strategy's installation steps
InstallOutcomes(id, p) ==
    IF id = "docker" /\ p = "debian" THEN {"ok", "unverified", "fail"} ELSE {"ok", "fail"}

\* the only Uninstall that can return a failure is Docker's on macOS
UninstallOutcomes(id, p) ==
    IF id = "docker" /\ p = "macos" THEN {"ok", "fail"} ELSE {"ok"}

\* where Install continues after the use case decided to call the strategy
HasOwnGuard(id) == id \in {"nerd-font", "oh-my-zsh"}

OpFrame == UNCHANGED <<batchVars, execVars, dockerVars, sudoVars, procVars, spinVars, fsVars, lateVars>>

OpFixed == UNCHANGED <<opApp, opPlatform, opKind, opOpts, opSilent>>

\* GetByID and factory.GetInstaller
OpResolve ==
    /\ opPc = "resolve"
    /\ IF opApp \notin Catalog
       THEN /\ opPc' = "done"
            /\ opResult' = NewFailure("application not found")
            /\ opLog' = Append(opLog, Entry("resolve", "not found"))
       ELSE IF GetInstallerV2(opApp, opPlatform) # "ok"
       THEN /\ opPc' = "done"
            /\ opResult' = NewFailure("no installer")
            /\ opLog' = Append(opLog, Entry("resolve", GetInstallerV2(opApp, opPlatform)))
       ELSE /\ opPc' = "check"
            /\ opResult' = opResult
            /\ opLog' = Append(opLog, Entry("resolve", "ok"))
    /\ UNCHANGED <<opInstalled, opStored, opStatus, opRemoved>>
    /\ OpFixed /\ OpFrame

AfterCheckIgnoringAbsent(kind, status, o) ==
    IF kind = "install"
    THEN (IF IsInstalled(status) /\ ~o.noInteraction THEN "confirm" ELSE "guard")
    ELSE (IF ~o.noInteraction THEN "confirm" ELSE "steps")

\* where Execute continues after the use case's status check
AfterCheck(kind, status, o) ==
    IF kind = "install"
    THEN (IF IsInstalled(status) /\ ~o.noInteraction THEN "confirm" ELSE "guard")
    ELSE IF ~IsInstalled(status) THEN "done"
    ELSE (IF ~o.noInteraction THEN "confirm" ELSE "steps")

\* installer.CheckStatus in the use case, and the branch taken on its result
OpCheckStatus ==
    /\ opPc = "check"
    /\ opStatus' = Probe(opInstalled).status
    /\ opLog' = Append(opLog, Entry("check", Probe(opInstalled)))
    /\ opInstalled' = AfterProbe(opInstalled)
    /\ opPc' = AfterCheck(opKind, opStatus', opOpts)
    /\ opResult' = IF opPc' = "done" THEN NewSuccess("Application non installee")
                    ELSE opResult
    /\ UNCHANGED <<opStored, opRemoved>>
    /\ OpFixed /\ OpFrame

AfterAnswerAlwaysProceeds(kind, answer) == IF kind = "install" THEN "guard" ELSE "steps"

\* where Execute continues after the answer to the use case's question
AfterAnswer(kind, answer) ==
    IF answer THEN (IF kind = "install" THEN "guard" ELSE "steps") ELSE "done"

\* uc.prompter.Confirm(..., false) in the use case
OpConfirm ==
    /\ opPc = "confirm"
    /\ \E answer \in Answers(opSilent) :
        /\ opLog' = Append(opLog, ConfirmEntry(opSilent, answer))
        /\ opPc' = AfterAnswer(opKind, answer)
        /\ opResult' = IF opPc' # "done" THEN opResult
                        ELSE IF opKind = "install" THEN NewSuccess("Deja installe")
                        ELSE NewSuccess("Desinstallation annulee")
    /\ UNCHANGED <<opInstalled, opStored, opStatus, opRemoved>>
    /\ OpFixed /\ OpFrame

\* the head of the strategy's Install: Nerd Font and Oh My Zsh check the status
\* themselves and ask their own question
OpStrategyGuard ==
    /\ opPc = "guard"
    /\ IF ~HasOwnGuard(opApp)
       THEN /\ opPc' = "steps"
            /\ UNCHANGED <<opInstalled, opStatus, opLog, opRemoved, opResult>>
       ELSE \E zsh \in BOOLEAN, answer \in Answers(opSilent) :
            IF opApp = "oh-my-zsh" /\ ~zsh
            THEN /\ opPc' = "done"
                 /\ opResult' = NewFailure("Zsh doit etre installe avant Oh My Zsh")
                 /\ UNCHANGED <<opInstalled, opStatus, opLog, opRemoved>>
            ELSE
              LET st == Probe(opInstalled).status
                  checked == Append(opLog, Entry("check", Probe(opInstalled)))
                  asks == IF opApp = "nerd-font" THEN TRUE ELSE ~opOpts.noInteraction
              IN  /\ opStatus' = st
                  /\ IF ~IsInstalled(st)
                     THEN /\ opLog' = checked
                          /\ opPc' = "steps"
                          /\ UNCHANGED <<opInstalled, opRemoved, opResult>>
                     ELSE IF asks /\ ~answer
                     THEN /\ opLog' = Append(checked, ConfirmEntry(opSilent, answer))
                          /\ opPc' = "done"
                          /\ opResult' = IF opApp = "nerd-font"
                                          THEN NewSuccess("Nerd Font deja installee")
                                          ELSE NewSuccess("Oh My Zsh deja installe")
                          /\ UNCHANGED <<opInstalled, opRemoved>>
                     ELSE /\ opLog' = IF asks
                                       THEN Append(checked, ConfirmEntry(opSilent, answer))
                                       ELSE checked
                          /\ opPc' = "steps"
                          /\ opResult' = opResult
                          /\ IF opApp = "oh-my-zsh"
                             THEN /\ opRemoved' = opRemoved \cup {Path(".oh-my-zsh", "app")}
                                  /\ opInstalled' = FALSE
                             ELSE UNCHANGED <<opInstalled, opRemoved>>
    /\ UNCHANGED opStored
    /\ OpFixed /\ OpFrame

\* the strategy's installation commands, then the use case's UpdateStatus
OpInstallSteps ==
    /\ opPc = "steps"
    /\ opKind = "install"
    /\ \E outcome \in InstallOutcomes(opApp, opPlatform) :
        /\ opInstalled' = IF outcome = "ok" THEN TRUE ELSE opInstalled
        /\ opResult' = IF outcome = "fail" THEN NewFailure("Echec de l'installation")
                        ELSE NewSuccess("Installation terminee")
        /\ opStored' = IF opResult'.success THEN StatusInstalled ELSE opStored
        /\ opLog' = IF opResult'.success
                     THEN opLog \o <<Entry("steps", outcome), Entry("update", StatusInstalled)>>
                     ELSE Append(opLog, Entry("steps", outcome))
    /\ opPc' = "done"
    /\ UNCHANGED <<opStatus, opRemoved>>
    /\ OpFixed /\ OpFrame

\* the strategy's Uninstall, then the use case's UpdateStatus
OpUninstallSteps ==
    /\ opPc = "steps"
    /\ opKind = "uninstall"
    /\ \E outcome \in UninstallOutcomes(opApp, opPlatform), gone \in BOOLEAN :
        IF outcome = "fail"
        THEN /\ opResult' = NewFailure("Impossible de supprimer Docker.app")
             /\ opLog' = Append(opLog, Entry("steps", outcome))
             /\ UNCHANGED <<opInstalled, opStored, opRemoved>>
        ELSE /\ opResult' = NewSuccess("Desinstallation terminee")
             /\ opRemoved' = opRemoved \cup UninstallRemovals(opApp, opPlatform, opOpts)
             /\ opInstalled' = RemainsAfterUninstall(opApp, opPlatform, opOpts, gone)
             /\ opStored' = StatusNotInstalled
             /\ opLog' = opLog \o <<Entry("steps", outcome), Entry("update", StatusNotInstalled)>>
    /\ opPc' = "done"
    /\ UNCHANGED opStatus
    /\ OpFixed /\ OpFrame

\* the operation starts on any application, on any platform, with the status a
\* previous listing stored
OpInit ==
    /\ opApp \in OpIDs
    /\ opPlatform \in Platforms
    /\ opKind \in {"install", "uninstall"}
    /\ opSilent \in BOOLEAN
    /\ opOpts \in IF opKind = "install" THEN InstallOptionValues ELSE OptionValues
    /\ Wired(opOpts, opSilent)
    /\ opInstalled \in BOOLEAN
    /\ opStored = Probe(opInstalled).status
    /\ opStatus = "none"
    /\ opPc = "resolve"
    /\ opLog = <<>>
    /\ opRemoved = {}
    /\ opResult = NewFailure("pending")

InitOp == OpInit /\ BatchIdle /\ ExecIdle /\ DockerIdle /\ SudoIdle /\ ProcIdle /\ SpinIdle /\ FsIdle /\ LateIdle

NextOp ==
    \/ OpResolve
    \/ OpCheckStatus
    \/ OpConfirm
    \/ OpStrategyGuard
    \/ OpInstallSteps
    \/ OpUninstallSteps

SpecOp == InitOp /\ [][NextOp]_vars

\* ------------------------------------------------------------------ progress spinner
\* TerminalReporter.StartSpinner / StopSpinner: the caller's goroutine and the
\* spinner goroutine share spinnerActive (no lock, no atomic) and the unbuffered
\* channel spinnerStop.

\* the values a read of spinnerActive by the caller can return: the stored one, or
\* TRUE as long as the goroutine's unsynchronised "spinnerActive = false" need not
\* be visible to the caller
ReadsOfActive == {spinnerActive} \cup (IF spinnerStale THEN {TRUE} ELSE {})

SpinnerWrites == {"frame", "clear"}

SpinFrame == UNCHANGED <<batchVars, execVars, dockerVars, sudoVars, procVars, opVars, fsVars, lateVars>>

\* StartSpinner: returns at once when spinnerActive reads true, else sets it and
\* starts the goroutine
StartSpinner ==
    /\ callerPc = "idle"
    /\ Len(term) < MaxTerm
    /\ \E seen \in ReadsOfActive :
          IF seen
          THEN UNCHANGED <<spinnerActive, spinnerStale, spinPc, term>>
          ELSE /\ spinnerActive' = TRUE
               /\ spinnerStale' = FALSE
               /\ spinPc' = "select"
               /\ term' = Append(term, "started")
    /\ UNCHANGED callerPc
    /\ SpinFrame

\* the default case of the goroutine's select: no sender waits, one frame is
\* written, then the goroutine sleeps and loops
SpinnerFrame ==
    /\ spinPc = "select"
    /\ callerPc # "sending"
    /\ Len(term) < MaxTerm
    /\ term' = Append(term, "frame")
    /\ UNCHANGED <<spinnerActive, spinnerStale, spinPc, callerPc>>
    /\ SpinFrame

\* StopSpinner up to the send: nothing to do when spinnerActive reads false, else
\* the caller blocks on "r.spinnerStop <- true"
StopSpinnerCall ==
    /\ callerPc = "idle"
    /\ Len(term) < MaxTerm
    /\ \E seen \in ReadsOfActive :
          IF seen
          THEN /\ callerPc' = "sending"
               /\ term' = term
          ELSE /\ callerPc' = "idle"
               /\ term' = Append(term, "stopped")
    /\ UNCHANGED <<spinnerActive, spinnerStale, spinPc>>
    /\ SpinFrame

\* "case <-r.spinnerStop": the rendezvous lets the sender go on
SpinnerReceive ==
    /\ spinPc = "select"
    /\ callerPc = "sending"
    /\ spinPc' = "clear"
    /\ callerPc' = "sent"
    /\ UNCHANGED <<spinnerActive, spinnerStale, term>>
    /\ SpinFrame

\* StopSpinner returns to its caller
StopSpinnerReturn ==
    /\ callerPc = "sent"
    /\ Len(term) < MaxTerm
    /\ callerPc' = "idle"
    /\ term' = Append(term, "stopped")
    /\ UNCHANGED <<spinnerActive, spinnerStale, spinPc>>
    /\ SpinFrame

\* r.ClearProgress() in the goroutine: "\r", blanks, "\r" written to the terminal
SpinnerClear ==
    /\ spinPc = "clear"
    /\ Len(term) < MaxTerm
    /\ term' = Append(term, "clear")
    /\ spinPc' = "reset"
    /\ UNCHANGED <<spinnerActive, spinnerStale, callerPc>>
    /\ SpinFrame

\* "r.spinnerActive = false; return" in the goroutine
SpinnerReset ==
    /\ spinPc = "reset"
    /\ spinnerActive' = FALSE
    /\ spinnerStale' = TRUE
    /\ spinPc' = "ended"
    /\ UNCHANGED <<callerPc, term>>
    /\ SpinFrame

\* the caller prints a status line (Success, Error, Info, ...)
CallerPrint ==
    /\ callerPc = "idle"
    /\ Len(term) < MaxTerm
    /\ term' = Append(term, "print")
    /\ UNCHANGED <<spinnerActive, spinnerStale, spinPc, callerPc>>
    /\ SpinFrame

InitSpin == SpinIdle /\ BatchIdle /\ ExecIdle /\ DockerIdle /\ SudoIdle /\ ProcIdle /\ OpIdle /\ FsIdle /\ LateIdle

NextSpin ==
    \/ StartSpinner
    \/ SpinnerFrame
    \/ StopSpinnerCall
    \/ SpinnerReceive
    \/ StopSpinnerReturn
    \/ SpinnerClear
    \/ SpinnerReset
    \/ CallerPrint

SpecSpin == InitSpin /\ [][NextSpin]_vars

\* the Go scheduler runs a goroutine that can take a step: the spinner goroutine
\* receives, clears and resets when it can, and a completed send returns
SpecSpinLive ==
    /\ SpecSpin
    /\ WF_vars(SpinnerReceive)
    /\ WF_vars(SpinnerClear)
    /\ WF_vars(SpinnerReset)
    /\ WF_vars(StopSpinnerReturn)

\* ------------------------------------------------------------------ filesystem
\* LocalFileSystem's mutating methods, and the removals the font strategy makes
\* with os.Remove directly.

\* what a path can hold: nothing, the file that was there, a file just written,
\* a directory, the earlier file with another mode

FsFrame == UNCHANGED <<batchVars, execVars, dockerVars, sudoVars, procVars, opVars, spinVars, lateVars>>

\* "if fs.dryRun { reporter.Info("[DRY RUN] ..."); return nil }", else the os call
FsApply(after, note) ==
    /\ fsOps' = fsOps + 1
    /\ IF fsDryRun
       THEN /\ fsReported' = Append(fsReported, note)
            /\ fsDisk' = fsDisk
       ELSE /\ fsReported' = fsReported
            /\ fsDisk' = after
    /\ UNCHANGED <<fsDryRun, fsDisk0>>
    /\ FsFrame

\* an os call made past LocalFileSystem: it knows no dry-run flag
OsApply(after) ==
    /\ fsOps' = fsOps + 1
    /\ fsDisk' = after
    /\ UNCHANGED <<fsDryRun, fsDisk0, fsReported>>
    /\ FsFrame

FsWriteFile ==
    /\ fsOps < MaxFsOps
    /\ \E p \in FsPaths : FsApply([fsDisk EXCEPT ![p] = "new"], <<"write file", p>>)

FsCreate ==
    /\ fsOps < MaxFsOps
    /\ \E p \in FsPaths : FsApply([fsDisk EXCEPT ![p] = "new"], <<"create", p>>)

FsMkdirAll ==
    /\ fsOps < MaxFsOps
    /\ \E p \in FsPaths :
        FsApply([fsDisk EXCEPT ![p] = IF @ = "absent" THEN "dir" ELSE @], <<"mkdir -p", p>>)

FsRemoveAll ==
    /\ fsOps < MaxFsOps
    /\ \E p \in FsPaths : FsApply([fsDisk EXCEPT ![p] = "absent"], <<"rm -rf", p>>)

FsCopy ==
    /\ fsOps < MaxFsOps
    /\ \E p, q \in FsPaths :
        /\ p # q
        /\ FsApply(IF fsDisk[p] \in {"absent", "dir"} THEN fsDisk
                   ELSE [fsDisk EXCEPT ![q] = "new"], <<"cp", p, q>>)

FsRename ==
    /\ fsOps < MaxFsOps
    /\ \E p, q \in FsPaths :
        /\ p # q
        /\ FsApply(IF fsDisk[p] = "absent" THEN fsDisk
                   ELSE [fsDisk EXCEPT ![q] = fsDisk[p], ![p] = "absent"], <<"mv", p, q>>)

FsChmod ==
    /\ fsOps < MaxFsOps
    /\ \E p \in FsPaths :
        FsApply([fsDisk EXCEPT ![p] = IF @ = "old" THEN "old+mode" ELSE @], <<"chmod", p>>)

\* font Strategy.Uninstall on Linux: os.Remove of every Nerd / Meslo font file
FontRemoveFiles ==
    /\ fsOps < MaxFsOps
    /\ OsApply([fsDisk EXCEPT ![FontFile] = "absent"])

\* font Strategy.installLinux: os.Remove(zipPath) after the extraction
FontRemoveZip ==
    /\ fsOps < MaxFsOps
    /\ OsApply([fsDisk EXCEPT ![FontZip] = "absent"])

FsInit ==
    /\ fsDryRun \in BOOLEAN
    /\ fsDisk \in [FsPaths -> {"absent", "old"}]
    /\ fsDisk0 = fsDisk
    /\ fsReported = <<>>
    /\ fsOps = 0

InitFs == FsInit /\ BatchIdle /\ ExecIdle /\ DockerIdle /\ SudoIdle /\ ProcIdle /\ OpIdle /\ SpinIdle /\ LateIdle

NextFs ==
    \/ FsWriteFile
    \/ FsCreate
    \/ FsMkdirAll
    \/ FsRemoveAll
    \/ FsCopy
    \/ FsRename
    \/ FsChmod
    \/ FontRemoveFiles
    \/ FontRemoveZip

SpecFs == InitFs /\ [][NextFs]_vars

\* ------------------------------------------------------------------ terminal UI
\* The Bubble Tea model of internal/adapter/primary/tui: one action per message
\* Update handles, plus the command startInstallation returns. Indices are those
\* of the Go slices (from 0).

TuiFrame == UNCHANGED <<batchVars, execVars, dockerVars, sudoVars, procVars, opVars,
                        spinVars, fsVars, macVars, zshVars>>

\* Model.getSelectableApps: the installed entries of m.apps in uninstall mode,
\* every entry otherwise, in the order of m.apps
getSelectableApps(unin, inst) ==
    LET all == [k \in 1..MaxApps |-> k - 1]
        Installed(a) == inst[a]
    IN IF unin THEN SelectSeq(all, Installed) ELSE all

\* Model.getSelectedApps: the selectable entries whose index is marked
getSelectedApps(unin, inst, sel) ==
    LET apps == getSelectableApps(unin, inst)
        Marked(i) == i \in sel
        chosen == SelectSeq([k \in 1..Len(apps) |-> k - 1], Marked)
    IN [k \in 1..Len(chosen) |-> apps[chosen[k] + 1]]

\* Model.hasSelection: some key of the map holds true
hasSelection(sel) == sel # {}

\* Model.initAppSelection: a fresh map; what is not installed is preselected in
\* install mode, nothing in uninstall mode
initAppSelection(unin, inst) ==
    LET apps == getSelectableApps(unin, inst)
    IN IF unin THEN {} ELSE {i \in 0..(Len(apps) - 1) : ~inst[apps[i + 1]]}

\* mutant: keys are handled while installing
KeysIgnoredNever(state) == FALSE

\* "Don't handle keys during installation": Update returns the model as it is
KeysIgnored(state) == state = "Installing"

\* the installDoneMsg of the command: ok holds the positions of job whose
\* one-application ExecuteMultiple gave a successful entry
DoneMsg(job, ok) ==
    [successCount |-> Cardinality(ok), failureCount |-> Len(job) - Cardinality(ok)]

\* "q", "ctrl+c"
KeyQuit ==
    /\ ~tuiQuit
    /\ IF KeysIgnored(tuiState)
       THEN UNCHANGED <<tuiState, tuiQuit>>
       ELSE tuiState' = "Quit" /\ tuiQuit' = TRUE
    /\ UNCHANGED <<tuiInstalled, tuiUninstall, modeIndex, appIndex, selectedApps, tuiJob,
                   tuiCmd, tuiMsg, tuiCounts, spinnerFrame>>
    /\ TuiFrame

\* "enter": Model.handleEnter
handleEnter ==
    /\ ~tuiQuit
    /\ IF KeysIgnored(tuiState)
       THEN UNCHANGED <<tuiState, tuiUninstall, selectedApps, tuiJob, tuiCmd, tuiCounts,
                        tuiQuit>>
       ELSE CASE tuiState = "Main" ->
                    /\ tuiState' = "ModeSelect"
                    /\ UNCHANGED <<tuiUninstall, selectedApps, tuiJob, tuiCmd, tuiCounts,
                                   tuiQuit>>
              [] tuiState = "ModeSelect" ->
                    /\ tuiUninstall' = (modeIndex = 1)
                    /\ selectedApps' = initAppSelection(tuiUninstall', tuiInstalled)
                    /\ tuiState' = "AppSelect"
                    /\ UNCHANGED <<tuiJob, tuiCmd, tuiCounts, tuiQuit>>
              [] tuiState = "AppSelect" ->
                    /\ tuiState' = IF hasSelection(selectedApps) THEN "Confirm"
                                   ELSE tuiState
                    /\ UNCHANGED <<tuiUninstall, selectedApps, tuiJob, tuiCmd, tuiCounts,
                                   tuiQuit>>
              [] tuiState = "Confirm" ->
                    /\ tuiState' = "Installing"
                    /\ tuiCounts' = [successCount |-> 0, failureCount |-> 0]
                    /\ tuiJob' = getSelectedApps(tuiUninstall, tuiInstalled, selectedApps)
                    /\ tuiCmd' = "running"
                    /\ UNCHANGED <<tuiUninstall, selectedApps, tuiQuit>>
              [] tuiState = "Result" ->
                    /\ tuiQuit' = TRUE
                    /\ UNCHANGED <<tuiState, tuiUninstall, selectedApps, tuiJob, tuiCmd,
                                   tuiCounts>>
              [] OTHER ->
                    UNCHANGED <<tuiState, tuiUninstall, selectedApps, tuiJob, tuiCmd,
                                tuiCounts, tuiQuit>>
    /\ UNCHANGED <<tuiInstalled, modeIndex, appIndex, tuiMsg, spinnerFrame>>
    /\ TuiFrame

\* "up", "k": Model.handleUp
handleUp ==
    /\ ~tuiQuit
    /\ modeIndex' = IF ~KeysIgnored(tuiState) /\ tuiState = "ModeSelect" /\ modeIndex > 0
                    THEN modeIndex - 1 ELSE modeIndex
    /\ appIndex' = IF ~KeysIgnored(tuiState) /\ tuiState = "AppSelect" /\ appIndex > 0
                   THEN appIndex - 1 ELSE appIndex
    /\ UNCHANGED <<tuiState, tuiInstalled, tuiUninstall, selectedApps, tuiJob, tuiCmd,
                   tuiMsg, tuiCounts, spinnerFrame, tuiQuit>>
    /\ TuiFrame

\* "down", "j": Model.handleDown
handleDown ==
    /\ ~tuiQuit
    /\ modeIndex' = IF ~KeysIgnored(tuiState) /\ tuiState = "ModeSelect" /\ modeIndex < 1
                    THEN modeIndex + 1 ELSE modeIndex
    /\ appIndex' = IF /\ ~KeysIgnored(tuiState)
                      /\ tuiState = "AppSelect"
                      /\ appIndex < Len(getSelectableApps(tuiUninstall, tuiInstalled)) - 1
                   THEN appIndex + 1 ELSE appIndex
    /\ UNCHANGED <<tuiState, tuiInstalled, tuiUninstall, selectedApps, tuiJob, tuiCmd,
                   tuiMsg, tuiCounts, spinnerFrame, tuiQuit>>
    /\ TuiFrame

\* " ": Model.handleSpace, m.selectedApps[m.appIndex] = !m.selectedApps[m.appIndex]
handleSpace ==
    /\ ~tuiQuit
    /\ selectedApps' = IF ~KeysIgnored(tuiState) /\ tuiState = "AppSelect"
                       THEN (IF appIndex \in selectedApps
                             THEN selectedApps \ {appIndex}
                             ELSE selectedApps \cup {appIndex})
                       ELSE selectedApps
    /\ UNCHANGED <<tuiState, tuiInstalled, tuiUninstall, modeIndex, appIndex, tuiJob,
                   tuiCmd, tuiMsg, tuiCounts, spinnerFrame, tuiQuit>>
    /\ TuiFrame

\* "esc": Model.handleEsc
handleEsc ==
    /\ ~tuiQuit
    /\ tuiState' = IF KeysIgnored(tuiState) THEN tuiState
                   ELSE CASE tuiState = "ModeSelect" -> "Main"
                          [] tuiState = "AppSelect" -> "ModeSelect"
                          [] tuiState = "Confirm" -> "AppSelect"
                          [] OTHER -> tuiState
    /\ UNCHANGED <<tuiInstalled, tuiUninstall, modeIndex, appIndex, selectedApps, tuiJob,
                   tuiCmd, tuiMsg, tuiCounts, spinnerFrame, tuiQuit>>
    /\ TuiFrame

\* tickMsg: counted while installing only
Tick ==
    /\ ~tuiQuit
    /\ tuiState = "Installing"
    /\ spinnerFrame < MaxTicks
    /\ spinnerFrame' = spinnerFrame + 1
    /\ UNCHANGED <<tuiState, tuiInstalled, tuiUninstall, modeIndex, appIndex, selectedApps,
                   tuiJob, tuiCmd, tuiMsg, tuiCounts, tuiQuit>>
    /\ TuiFrame

\* the command startInstallation returned: one ExecuteMultiple per captured
\* application; a successful operation updates the stored application, which
\* m.apps shares with the repository
startInstallation ==
    /\ tuiCmd = "running"
    /\ \E ok \in SUBSET (1..Len(tuiJob)) :
          /\ tuiMsg' = DoneMsg(tuiJob, ok)
          /\ tuiInstalled' = [a \in 0..(MaxApps - 1) |->
                                IF \E k \in ok : tuiJob[k] = a
                                THEN ~tuiUninstall ELSE tuiInstalled[a]]
    /\ tuiCmd' = "sent"
    /\ UNCHANGED <<tuiState, tuiUninstall, modeIndex, appIndex, selectedApps, tuiJob,
                   tuiCounts, spinnerFrame, tuiQuit>>
    /\ TuiFrame

\* installDoneMsg reaches Update
InstallDone ==
    /\ ~tuiQuit
    /\ tuiCmd = "sent"
    /\ tuiCounts' = tuiMsg
    /\ tuiState' = "Result"
    /\ tuiCmd' = "delivered"
    /\ UNCHANGED <<tuiInstalled, tuiUninstall, modeIndex, appIndex, selectedApps, tuiJob,
                   tuiMsg, spinnerFrame, tuiQuit>>
    /\ TuiFrame

\* NewModel over the applications ListApplicationsUseCase returned
TuiInit ==
    /\ tuiState = "Main"
    /\ tuiInstalled \in [0..(MaxApps - 1) -> BOOLEAN]
    /\ tuiUninstall = FALSE
    /\ modeIndex = 0
    /\ appIndex = 0
    /\ selectedApps = {}
    /\ tuiJob = <<>>
    /\ tuiCmd = "none"
    /\ tuiMsg = [successCount |-> 0, failureCount |-> 0]
    /\ tuiCounts = [successCount |-> 0, failureCount |-> 0]
    /\ spinnerFrame = 0
    /\ tuiQuit = FALSE

InitTui == TuiInit /\ BatchIdle /\ ExecIdle /\ DockerIdle /\ SudoIdle /\ ProcIdle /\ OpIdle /\ SpinIdle /\ FsIdle /\ MacIdle /\ ZshIdle

NextTui ==
    \/ KeyQuit
    \/ handleEnter
    \/ handleUp
    \/ handleDown
    \/ handleSpace
    \/ handleEsc
    \/ Tick
    \/ startInstallation
    \/ InstallDone

SpecTui == InitTui /\ [][NextTui]_vars

\* ------------------------------------------------------------------ Docker Desktop on macOS
\* MacOSStrategy.Install and the legacy macOSInstaller.Install, step by step, with
\* the deferred calls each registers and runs when it returns.

MacFrame == UNCHANGED <<batchVars, execVars, dockerVars, sudoVars, procVars, opVars,
                        spinVars, fsVars, tuiVars, zshVars>>

\* mutant: the deferred calls run in the order they were registered
NextDeferredOldestFirst(stack) == 1

\* the deferred call that runs next when the function returns: the one
\* registered last
NextDeferred(stack) == Len(stack)

\* the temporary directory: FileSystem.MkdirAll (simulated in dry-run) in the
\* strategy, os.MkdirTemp in the legacy installer; on success the removal of the
\* directory is deferred
MacMkdir ==
    /\ macPc = "mkdir"
    /\ \E ok \in BOOLEAN :
          IF macImpl = "v3" /\ macDry
          THEN /\ macDefers' = Append(macDefers, "rmtmp")
               /\ macPc' = "download"
               /\ UNCHANGED <<macTmp, macCreated, macLog>>
          ELSE IF ok
          THEN /\ macTmp' = TRUE
               /\ macCreated' = TRUE
               /\ macLog' = Append(macLog, "mkdir")
               /\ macDefers' = Append(macDefers, "rmtmp")
               /\ macPc' = "download"
          ELSE /\ macPc' = "done"
               /\ UNCHANGED <<macTmp, macCreated, macLog, macDefers>>
    /\ UNCHANGED <<macImpl, macDry, macMounted, macOk>>
    /\ MacFrame

\* the download of Docker.dmg into the temporary directory: HTTPClient.Download,
\* which does not know the dry-run flag and needs the directory, or
\* Runner.DownloadFile, which reports success in dry-run without downloading
MacDownload ==
    /\ macPc = "download"
    /\ \E ok \in BOOLEAN :
          LET got == CASE macImpl = "v3" -> ok /\ macTmp
                       [] macDry -> TRUE
                       [] OTHER -> ok
          IN /\ macLog' = IF got /\ ~(macImpl = "legacy" /\ macDry)
                          THEN Append(macLog, "download") ELSE macLog
             /\ macPc' = IF got THEN "attach" ELSE "return"
    /\ UNCHANGED <<macImpl, macDry, macDefers, macTmp, macCreated, macMounted, macOk>>
    /\ MacFrame

\* hdiutil detach of an image already mounted, then hdiutil attach; on success
\* the detach of the image is deferred. In dry-run no command is executed and
\* every Run reports success.
MacAttach ==
    /\ macPc = "attach"
    /\ \E detached \in BOOLEAN, ok \in BOOLEAN :
          LET pre == macMounted /\ ~macDry
              still == IF pre THEN ~detached ELSE macMounted
              log1 == IF pre THEN Append(macLog, "predetach") ELSE macLog
          IN IF macDry
             THEN /\ macDefers' = Append(macDefers, "detach")
                  /\ macPc' = "install"
                  /\ UNCHANGED <<macLog, macMounted>>
             ELSE IF ok
             THEN /\ macMounted' = TRUE
                  /\ macLog' = Append(log1, "attach")
                  /\ macDefers' = Append(macDefers, "detach")
                  /\ macPc' = "install"
             ELSE /\ macMounted' = still
                  /\ macLog' = log1
                  /\ macDefers' = macDefers
                  /\ macPc' = "return"
    /\ UNCHANGED <<macImpl, macDry, macTmp, macCreated, macOk>>
    /\ MacFrame

\* from the test for Docker.app in the image to the end of Install: the app is
\* missing, the old version cannot be removed, the copy fails, or the app is
\* copied and started
MacInstallApp ==
    /\ macPc = "install"
    /\ \E outcome \in {"nosrc", "rmfail", "cpfail", "ok"} :
          /\ (~macMounted => outcome = "nosrc")
          /\ macOk' = (outcome = "ok")
          /\ macLog' = IF outcome = "ok" THEN Append(macLog, "copy") ELSE macLog
    /\ macPc' = "return"
    /\ UNCHANGED <<macImpl, macDry, macDefers, macTmp, macCreated, macMounted>>
    /\ MacFrame

\* Install returns: one deferred call runs. The detach goes through Run (not
\* executed in dry-run) and may fail; the removal is FileSystem.RemoveAll
\* (simulated in dry-run) in the strategy, os.RemoveAll in the legacy installer.
MacRunDeferred ==
    /\ macPc = "return"
    /\ macDefers # <<>>
    /\ \E ok \in BOOLEAN :
          LET d == NextDeferred(macDefers)
              call == macDefers[d]
              rest == SubSeq(macDefers, 1, d - 1) \o SubSeq(macDefers, d + 1, Len(macDefers))
              real == IF call = "detach" THEN ~macDry ELSE ~(macImpl = "v3" /\ macDry)
          IN /\ macDefers' = rest
             /\ macPc' = IF rest = <<>> THEN "done" ELSE "return"
             /\ macLog' = IF real THEN Append(macLog, call) ELSE macLog
             /\ macMounted' = IF call = "detach" /\ real /\ ok THEN FALSE ELSE macMounted
             /\ macTmp' = IF call = "rmtmp" /\ real THEN FALSE ELSE macTmp
    /\ UNCHANGED <<macImpl, macDry, macCreated, macOk>>
    /\ MacFrame

\* Install is called on a machine where an image may already be mounted; the
\* strategy's directory has a fixed name and may be left from an earlier run, the
\* legacy installer's name is fresh
MacInit ==
    /\ macImpl \in {"v3", "legacy"}
    /\ macDry \in BOOLEAN
    /\ macPc = "mkdir"
    /\ macDefers = <<>>
    /\ macLog = <<>>
    /\ macTmp \in BOOLEAN
    /\ (macImpl = "legacy" => ~macTmp)
    /\ macCreated = FALSE
    /\ macMounted \in BOOLEAN
    /\ macOk = FALSE

InitMac == MacInit /\ BatchIdle /\ ExecIdle /\ DockerIdle /\ SudoIdle /\ ProcIdle /\ OpIdle /\ SpinIdle /\ FsIdle /\ TuiIdle /\ ZshIdle

NextMac ==
    \/ MacMkdir
    \/ MacDownload
    \/ MacAttach
    \/ MacInstallApp
    \/ MacRunDeferred

SpecMac == InitMac /\ [][NextMac]_vars

\* ------------------------------------------------------------------ Oh My Zsh and .zshrc
\* OhMyZshStrategy.Install (with createZshrc) and OhMyZshStrategy.Uninstall on the
\* two files ~/.zshrc and ~/.zshrc.backup.

ZshFrame == UNCHANGED <<batchVars, execVars, dockerVars, sudoVars, procVars, opVars,
                        spinVars, fsVars, tuiVars, macVars>>

\* createZshrc: an existing .zshrc is copied over .zshrc.backup, then the
\* generated file is written; in dry-run Copy and WriteFile change nothing
createZshrc(dry, files, theme) ==
    IF dry THEN files
    ELSE [zshrc |-> theme,
          backup |-> IF files.zshrc # "absent" THEN files.zshrc ELSE files.backup]

\* OhMyZshStrategy.Install: zsh must be there; an existing installation is
\* removed after the user agreed (or without asking when NoInteraction is set);
\* createZshrc runs once the clone succeeded
ZshInstall ==
    /\ zshUninstalled = "no"
    /\ zshInstalls < MaxInstalls
    /\ \E zsh \in BOOLEAN, again \in BOOLEAN, cloned \in BOOLEAN,
          theme \in {"robbyrussell", "agnoster"} :
          IF ~zsh \/ (zshDir /\ ~again)
          THEN UNCHANGED <<zshFiles, zshDir, zshInstalls>>
          ELSE IF zshDry
          THEN /\ zshFiles' = createZshrc(zshDry, zshFiles, theme)
               /\ zshInstalls' = zshInstalls + 1
               /\ zshDir' = zshDir
          ELSE IF ~cloned
          THEN /\ zshDir' = FALSE
               /\ UNCHANGED <<zshFiles, zshInstalls>>
          ELSE /\ zshDir' = TRUE
               /\ zshFiles' = createZshrc(zshDry, zshFiles, theme)
               /\ zshInstalls' = zshInstalls + 1
    /\ UNCHANGED <<zshDry, zshOrig, zshUninstalled>>
    /\ ZshFrame

\* OhMyZshStrategy.Uninstall: RemoveOhMyZsh removes the directory; RemoveZshrc
\* removes .zshrc and, when .zshrc.backup exists, copies it back and removes it
ZshUninstall ==
    /\ zshUninstalled = "no"
    /\ zshInstalls > 0
    /\ \E removeOhMyZsh \in BOOLEAN, removeZshrc \in BOOLEAN :
          /\ zshDir' = IF removeOhMyZsh /\ ~zshDry THEN FALSE ELSE zshDir
          /\ zshFiles' = IF removeZshrc /\ ~zshDry
                         THEN [zshrc |-> zshFiles.backup, backup |-> "absent"]
                         ELSE zshFiles
          /\ zshUninstalled' = IF removeZshrc THEN "zshrc" ELSE "kept"
    /\ UNCHANGED <<zshDry, zshOrig, zshInstalls>>
    /\ ZshFrame

\* a home directory with or without a .zshrc of the user's, with or without an
\* older .zshrc.backup, with or without Oh My Zsh
ZshInit ==
    /\ zshDry \in BOOLEAN
    /\ zshFiles \in [zshrc : {"absent", "user"}, backup : {"absent", "older"}]
    /\ zshOrig = zshFiles.zshrc
    /\ zshDir \in BOOLEAN
    /\ zshInstalls = 0
    /\ zshUninstalled = "no"

InitZsh == ZshInit /\ BatchIdle /\ ExecIdle /\ DockerIdle /\ SudoIdle /\ ProcIdle /\ OpIdle /\ SpinIdle /\ FsIdle /\ TuiIdle /\ MacIdle

NextZsh ==
    \/ ZshInstall
    \/ ZshUninstall

SpecZsh == InitZsh /\ [][NextZsh]_vars

\* ------------------------------------------------------------------ claims: batch

IsStep(e) == e.kind = "step"
IsExec(e) == e.kind = "exec"

BatchFinished == pc \in {"summary", "done"} /\ appIDs # <<>>

Failed(res) == {id \in DOMAIN res : ~res[id].success}

\* C1: a finished batch over N selected identifiers returns a map with exactly N
\* entries, one per selected identifier, however many of them failed.
C1_BatchOutcomeComplete ==
    BatchFinished =>
        /\ DOMAIN results = Range(appIDs)
        /\ Cardinality(DOMAIN results) = Len(appIDs)

\* C1 witness: a finished batch of three with two failures and one success
C1_Witness ==
    /\ pc = "done"
    /\ Len(appIDs) = 3
    /\ Cardinality(DOMAIN results) = 3
    /\ Cardinality(Failed(results)) = 2

\* C2: an application whose strategy does not resolve, or whose Install/Uninstall
\* returns an error, gets a failure entry, and every application of the selection
\* is still executed: no application's error ends the batch early.
C2_FailureIsolated ==
    /\ \A k \in DOMAIN events :
          (IsExec(events[k]) /\ events[k].how \in {"notfound", "noinstaller", "err"})
              => /\ events[k].id \in DOMAIN results
                 /\ ~results[events[k].id].success
    /\ BatchFinished =>
          \A i \in 1..Len(appIDs) :
              \E k \in DOMAIN events :
                  IsExec(events[k]) /\ events[k].current = i /\ events[k].id = appIDs[i]

\* C2 witness: the first application has no strategy, the second one's operation
\* returns an error, and the third is still executed and succeeds
C2_Witness ==
    /\ pc = "done"
    /\ Len(events) = 6
    /\ events[2].how = "noinstaller"
    /\ events[4].how = "err"
    /\ events[6].how = "ok"
    /\ results[appIDs[3]].success

\* C3 (as stated): the status the caller exits with after a batch is non-zero
\* exactly when some selected application's result is a failure.
C3_ExitStatusReflectsFailures ==
    (pc = "done" /\ appIDs # <<>>) => (exitCode # 0 <=> Failed(results) # {})

\* C4: the step notifications follow the selection order, numbered 1..N, and the
\* Execute call of an application comes right after the notification announcing it.
C4_StepOrderPreserved ==
    LET steps == SelectSeq(events, IsStep)
    IN /\ Len(steps) <= Len(appIDs)
       /\ \A j \in 1..Len(steps) :
             /\ steps[j].id = appIDs[j]
             /\ steps[j].current = j
             /\ steps[j].total = Len(appIDs)
       /\ \A k \in DOMAIN events :
             IsExec(events[k]) =>
                 /\ k > 1
                 /\ IsStep(events[k - 1])
                 /\ events[k - 1].id = events[k].id

\* C4 witness: all three notifications of a batch of three have been emitted
C4_Witness ==
    /\ Len(appIDs) = 3
    /\ Len(SelectSeq(events, IsStep)) = 3
    /\ Len(SelectSeq(events, IsExec)) = 3

\* ------------------------------------------------------------------ claims: dry run

\* C5: every runner call made while dry-run is active, and that does not opt
\* out, starts no subprocess, emits the "[DRY RUN]" notice and returns success
\* with empty output; so under dry-run the subprocesses started and the notices
\* emitted never add up to more than the calls made.
C5_DryRunBypassesExecution ==
    /\ (last.runner # "none" /\ dryRun /\ ~last.opts.skipDryRun) =>
          /\ last.bypassed
          /\ ~last.started
          /\ last.notice
          /\ last.success
          /\ last.stdout = ""
          /\ last.stderr = ""
          /\ last.exitCode = 0
    /\ dryRun => spawned + notices <= calls

\* an elevated command went through Execute twice under dry-run and was bypassed
C5_Witness ==
    /\ dryRun
    /\ last.runner = "shell"
    /\ last.opts.sudo
    /\ ~last.opts.skipDryRun
    /\ last.bypassed
    /\ calls = 2
    /\ notices = 2
    /\ spawned = 0

\* C6: a dry-run install of Docker on a Debian-family system (repository key,
\* then packages) starts no subprocess, sends no network request, writes no
\* file, reports every command it issued as simulated, and returns success.
C6_DryRunInstallHasNoEffects ==
    (dryRun /\ dkPc # "idle") =>
        /\ spawned = 0
        /\ dkNet = 0
        /\ dkFiles = {}
        /\ notices = Len(dkLog)
        /\ (dkPc = "done" => dkResult.success)

\* ------------------------------------------------------------------ claims: privilege broker

\* the secret entered was verified and rejected
VerificationFailed == WarnIncorrect \in warnings \/ WarnNoSudo \in warnings

\* the batch ran to its end and the process exited by itself
ExitedNormally == sudoPc = "done"

\* C7: once the relay helper file exists, it is removed before the process
\* exits, on every path: whenever the process has exited, no helper file is
\* left on disk.
C7_HelperRemovedBeforeExit ==
    exitStatus # -1 => ~helper.exists

\* C8: in one batch the relay helper is created at most once, the elevated
\* commands of the loop leave it exactly as it was published, and it is
\* removed exactly once when the batch ends.
C8_HelperLifecycle ==
    /\ created <= 1
    /\ removed <= created
    /\ (sudoPc = "loop" /\ created = 1) =>
          /\ helper = [exists |-> TRUE, mode |-> "0700", content |-> "script"]
          /\ sudoAskpass = HelperPath
          /\ removed = 0
    /\ (sudoPc \in {"exit", "done"}) =>
          /\ removed = created
          /\ ~helper.exists
          /\ sudoAskpass = ""

\* a batch whose last elevated command used the helper has ended, the helper
\* created once and removed once
C8_Witness ==
    /\ ExitedNormally
    /\ created = 1
    /\ removed = 1
    /\ item = nItems
    /\ last.prefix = "sudo -A"

C10_BrokerSkipped ==
    (sudoPc # "idle" /\ (isRoot \/ dryRun)) =>
        /\ prompts = 0
        /\ verifies = 0
        /\ created = 0
        /\ ~helper.exists
        /\ sudoAskpassScript = ""
        /\ sudoAskpass = ""
        /\ warnings = {}

\* a dry-run batch of a non-root user, with sudo present, ran to its end
C10_Witness ==
    /\ dryRun
    /\ ~isRoot
    /\ sudoAvailable
    /\ ExitedNormally
    /\ item = nItems
    /\ last.opts.sudo
    /\ prompts = 0

\* C11: at every moment at which the relay helper file exists (from
\* os.CreateTemp to os.Remove, and after an abnormal exit that leaves it
\* behind), neither group nor other users can read it.
C11_HelperNeverReadableByOthers ==
    helper.exists => ~GroupOrOtherReadable(helper.mode)

\* the published helper (mode 0700, holding the secret) has served an elevated
\* command of the loop
C11_Witness ==
    /\ helper = [exists |-> TRUE, mode |-> "0700", content |-> "script"]
    /\ sudoPc = "loop"
    /\ item >= 1
    /\ last.prefix = "sudo -A"

\* ------------------------------------------------------------------ claims: command outcome

\* C12: when the deadline expired while the subprocess was still running, the
\* runner returns a failure whose error is the timeout ("Command timed out",
\* deadline exceeded) with exit code -1, and the subprocess is not running any
\* more when the runner returns.
C12_TimeoutOutcome ==
    (procPhase = "returned" /\ expiredRunning) =>
        /\ ~last.success
        /\ last.stderr = "Command timed out"
        /\ last.error = "deadline exceeded"
        /\ last.exitCode = -1
        /\ child # "running"

\* an elevated command ran past its deadline, was killed, and Execute returned
C12_Witness ==
    /\ procPhase = "returned"
    /\ expiredRunning
    /\ child = "killed"
    /\ procRunner = "shell"
    /\ procOpts.sudo
    /\ last.exitCode = -1

\* C13: the outcome a runner returns is a success exactly when the subprocess
\* exited with code 0 or the dry-run bypass answered the call.
C13_SuccessIffExitZero ==
    procPhase = "returned" =>
        (last.success <=> (child = "exit0" \/ last.bypassed))

\* ------------------------------------------------------------------ claims: one operation

\* the log holds an entry of one of the kinds
Logged(kinds) == \E i \in 1..Len(opLog) : opLog[i].kind \in kinds

\* the messages of a result that stands for "nothing was done, it was there already"
AlreadyInstalledMessages == {"Deja installe", "Nerd Font deja installee", "Oh My Zsh deja installe"}

\* an install in non-interactive mode that found the application installed has ended
NonInteractiveReinstallEnded ==
    /\ opKind = "install"
    /\ opPc = "done"
    /\ opOpts.noInteraction
    /\ opStatus = StatusInstalled

\* C14: an install in non-interactive mode of an application that is already installed
\* puts no confirmation question (asked or answered automatically) and does not end
\* on an already-installed result: it goes on to the installation.
C14_NonInteractiveReinstallProceeds ==
    NonInteractiveReinstallEnded =>
        /\ ~Logged({"ask", "auto"})
        /\ opResult.message \notin AlreadyInstalledMessages

\* an interactive install has ended after the user answered "non" to a question
DeclinedInstallEnded ==
    /\ opKind = "install"
    /\ opPc = "done"
    /\ ~opOpts.noInteraction
    /\ \E i \in 1..Len(opLog) : opLog[i] = Asked(FALSE)

AbsentUninstallEnded ==
    /\ opKind = "uninstall"
    /\ opPc = "done"
    /\ opStatus = StatusNotInstalled

\* C16: the uninstall of an application that is not installed returns a success and
\* hands no path to a removal call; the strategy's Uninstall is not reached and no
\* question is put, whatever the removal options say.
C16_AbsentUninstallSucceeds ==
    AbsentUninstallEnded =>
        /\ opResult = NewSuccess("Application non installee")
        /\ opRemoved = {}
        /\ ~Logged({"steps", "ask", "auto", "update"})
        /\ ~opInstalled

\* every removal option is set and still nothing is removed
C16_Witness ==
    /\ AbsentUninstallEnded
    /\ opApp = "neovim"
    /\ opOpts.removeConfig /\ opOpts.removeData /\ opOpts.removeCache
    /\ opRemoved = {}

\* the option that stands for a kind of directory
OptionFor(class, o) ==
    CASE class = "config" -> o.removeConfig
      [] class = "data" -> o.removeData
      [] class = "cache" -> o.removeCache
      [] OTHER -> TRUE

\* C17: during an uninstall a configuration, data or cache directory is handed to a
\* removal call only when the option of its kind is set; in particular with
\* RemoveConfig set and RemoveData unset no data directory is ever removed.
C17_RemovalsFollowOptions ==
    opKind = "uninstall" =>
        \A r \in opRemoved : OptionFor(r.class, opOpts)

\* an operation that obtained a strategy has ended
ResolvedOperationEnded ==
    /\ opPc = "done"
    /\ \E i \in 1..Len(opLog) : opLog[i] = Entry("resolve", "ok")

\* C18: once an install or an uninstall has ended, the stored status of the
\* application is the one its most recent CheckStatus call returned, or the one a
\* CheckStatus call made now would return: the stored status is never stale.
C18_StoredStatusIsFresh ==
    ResolvedOperationEnded =>
        \/ opStored = opStatus
        \/ opStored = Probe(opInstalled).status

\* C19: resolving a strategy fails closed: a strategy is obtained only for an
\* identifier of the catalog on a supported platform; an unknown identifier or an
\* unsupported platform ends the operation on an explicit error.
C19_ResolutionFailsClosed ==
    \A i \in 1..Len(opLog) :
        opLog[i].kind = "resolve" =>
            /\ opLog[i].arg = "ok" => (opApp \in Catalog /\ SupportsPlatform(opPlatform))
            /\ opApp \notin Catalog => opLog[i].arg \in {"not found", "unknown"}
            /\ ~SupportsPlatform(opPlatform) => opLog[i].arg \in {"not found", "unknown", "unsupported"}

\* the positions of the log between which nothing installed or removed anything
Quiet(i, j) == \A k \in i..j : opLog[k].kind \notin {"steps", "update"}

AllIn(a, b) == \A i \in 1..Len(a) : \E j \in 1..Len(b) : b[j] = a[i]

\* C21: a warning raised during the Docker install never turns the result into a
\* failure and is kept: when the install ends in success, every warning collected
\* on the way is among the warnings of the result that is returned.
C21_WarningsPreserved ==
    (dkPc = "done" /\ dkResult.success) =>
        AllIn(dkInstallResult.warnings, dkResult.warnings)

\* the Execute calls of the batch so far, in order
ExecCalls == SelectSeq(events, IsExec)

\* C22: within one batch the k-th Execute call is for the k-th selected application,
\* so no application is attempted twice; a failed attempt keeps its failure entry
\* and, when the batch has finished, every application after it has been attempted.
C22_AttemptedAtMostOnce ==
    /\ Len(ExecCalls) <= Len(appIDs)
    /\ \A k \in 1..Len(ExecCalls) :
          /\ ExecCalls[k].current = k
          /\ ExecCalls[k].id = appIDs[k]
          /\ ExecCalls[k].how \in {"notfound", "noinstaller", "err", "fail"}
                => ~results[ExecCalls[k].id].success
    /\ \A j, k \in 1..Len(ExecCalls) : ExecCalls[j].id = ExecCalls[k].id => j = k
    /\ BatchFinished => Len(ExecCalls) = Len(appIDs)

\* the first application failed, the two after it were attempted, once each
C22_Witness ==
    /\ pc = "done"
    /\ Len(ExecCalls) = 3
    /\ ExecCalls[1].how = "fail"
    /\ ExecCalls[2].how = "ok"
    /\ ExecCalls[3].how = "ok"

\* position of the first occurrence of a step in the log, 0 when it is absent
RECURSIVE FirstAt(_, _)
FirstAt(step, i) ==
    IF i > Len(dkLog) THEN 0
    ELSE IF dkLog[i] = step THEN i
    ELSE FirstAt(step, i + 1)

\* C23: the commands of the Debian-family Docker install run one after the other in
\* the order of the strategy, none twice and none ahead of an earlier one: the
\* repository key is downloaded and moved in place before the package index is
\* updated, and the index is updated before the packages are installed.
C23_CommandsInStrategyOrder ==
    /\ \A i, j \in 1..Len(dkLog) : i < j => DkIndex(dkLog[i]) < DkIndex(dkLog[j])
    /\ FirstAt("update", 1) > 0 =>
          /\ FirstAt("download", 1) > 0
          /\ FirstAt("download", 1) < FirstAt("mv", 1)
          /\ FirstAt("mv", 1) < FirstAt("update", 1)
    /\ FirstAt("install", 1) > 0 =>
          /\ FirstAt("update", 1) > 0
          /\ FirstAt("update", 1) < FirstAt("install", 1)

\* the packages have been installed, after the key and the index
C23_Witness ==
    /\ dkPc = "done"
    /\ FirstAt("mv", 1) > 0
    /\ FirstAt("install", 1) > FirstAt("update", 1)
    /\ FirstAt("version", 1) = Len(dkLog)

\* ------------------------------------------------------------------ claims: spinner

\* C24: once a call of StopSpinner has returned, the spinner goroutine writes no
\* frame and no clearing sequence to the terminal until a spinner is started again.
C24_NoSpinnerWriteAfterStop ==
    \A i, j \in 1..Len(term) :
        (i < j /\ term[i] = "stopped" /\ term[j] \in SpinnerWrites)
            => \E k \in (i + 1)..(j - 1) : term[k] = "started"

\* ------------------------------------------------------------------ claims: elevation and results

\* the last call asked for non-interactive elevation and its "sudo -n" ended with a
\* non-zero status, as it does when the cached credential is missing or expired
NonInteractiveSudoRefused ==
    /\ last.runner = "shell"
    /\ last.opts.sudoNI
    /\ ~isRoot
    /\ last.started
    /\ last.error = "exitN"

\* C25: a call in the non-interactive elevation sub-mode whose cached credential is
\* refused falls back to interactive elevation: the command is run with a prompting
\* sudo, attached to the terminal, instead of ending on the refusal.
C25_FallsBackToInteractiveElevation ==
    NonInteractiveSudoRefused =>
        /\ last.prefix \in {"sudo", "sudo -A"}
        /\ last.attached

\* C26: a started command is attached to the terminal exactly when it is marked
\* interactive or interactive elevation is in effect for it, that is when it was
\* prefixed with the prompting "sudo" (elevation requested, caller not privileged,
\* no non-interactive elevation, no relay helper); otherwise its output is captured.
C26_AttachedIffInteractive ==
    (last.runner = "shell" /\ last.started) =>
        (last.attached <=> (last.opts.interactive \/ last.prefix = "sudo"))

\* C27: every runner call that starts a subprocess runs it under the caller's
\* cancellation token, and a subprocess that was running when the token was
\* cancelled has been killed: it is not left running.
C27_CancellationKillsSubprocess ==
    /\ procPhase = "running" => HasToken(procEntry)
    /\ (procPhase = "running" /\ token = "cancelledRunning") => child = "killed"

\* C28: every subprocess the runner starts is bounded by a timeout, so a call that
\* is waiting for its subprocess always returns in the end.
C28_EveryCallReturns ==
    (procPhase = "running") ~> (procPhase = "returned")

C30_DryRunLeavesDiskUnchanged ==
    fsDryRun =>
        /\ fsDisk = fsDisk0
        /\ Len(fsReported) = fsOps

\* ------------------------------------------------------------------ claims: stored status
\* C31: an install or uninstall that ends in a failure result or an error leaves
\* the status stored in the repository as it was; an Execute call changes the
\* stored status of its own application only, to Installed after a successful
\* install and to NotInstalled after a successful uninstall.
C31_StoredStatusFollowsSuccess ==
    [][pc = "exec" =>
        LET id == appIDs[idx + 1]
        IN /\ (~results'[id].success => repo' = repo)
           /\ \A a \in Catalog :
                 repo'[a] # repo[a] =>
                    /\ a = id
                    /\ results'[id].success
                    /\ repo'[a] = IF uninstallMode THEN StatusNotInstalled
                                  ELSE StatusInstalled]_vars

\* a failed uninstall has left the application stored as installed, and a
\* successful one of the same batch has stored NotInstalled
C31_Witness ==
    /\ pc = "done"
    /\ uninstallMode
    /\ \E a \in DOMAIN results : ~results[a].success /\ IsInstalled(repo[a])
    /\ \E b \in DOMAIN results : results[b].success /\ repo[b] = StatusNotInstalled

\* ------------------------------------------------------------------ claims: spinner stop
\* C32: every StopSpinner call eventually returns: a caller that has started the
\* send on spinnerStop (with room left on the terminal for the goroutine's clear)
\* eventually gets past it.
C32_StopSpinnerReturns ==
    (callerPc = "sending" /\ Len(term) < MaxTerm) ~> (callerPc # "sending")

\* ------------------------------------------------------------------ claims: terminal UI
\* C33: on the selection and confirmation screens every index marked as selected
\* is an index of the current mode's selectable list, and the installing state is
\* entered with at least one application to process.
C33_SelectionWithinList ==
    /\ tuiState \in {"AppSelect", "Confirm"} =>
          \A i \in selectedApps :
              i < Len(getSelectableApps(tuiUninstall, tuiInstalled))
    /\ tuiState = "Installing" => tuiJob # <<>>

\* C34: in the installing state a step either stays there, leaving the mode, the
\* cursors, the selection and the counts alone, or is the delivery of the
\* installation-done message, which leads to the result state with success and
\* failure counts that sum to the number of applications the installation was
\* started with.
C34_InstallingOnlyLeavesOnDone ==
    [][tuiState = "Installing" =>
         \/ /\ tuiState' = "Installing"
            /\ UNCHANGED <<tuiUninstall, modeIndex, appIndex, selectedApps, tuiJob,
                           tuiCounts, tuiQuit>>
         \/ /\ tuiState' = "Result"
            /\ tuiCmd = "sent"
            /\ tuiCmd' = "delivered"
            /\ tuiCounts'.successCount + tuiCounts'.failureCount = Len(tuiJob)]_vars

\* the result screen after an installation of two applications, one of which
\* failed, with ticks counted while it ran
C34_Witness ==
    /\ tuiState = "Result"
    /\ tuiCounts.successCount = 1
    /\ tuiCounts.failureCount = 1
    /\ Len(tuiJob) = 2
    /\ spinnerFrame > 0

\* ------------------------------------------------------------------ claims: aborting steps
\* C35: when the prerequisites or the Docker packages could not be installed, or
\* the repository key could not be fetched, the install has ended there with a
\* failure result (no later step is in the log); when only the package-index
\* update failed the install goes on with the packages.
C35_AbortingStepsAbort ==
    dkLog # <<>> =>
        LET step == dkLog[Len(dkLog)]
            ended == dkPc = "done" /\ ~dkResult.success
        IN /\ (step \in {"prereq", "install"} /\ ~last.success) => ended
           /\ (step = "download" /\ TmpGPG \notin dkFiles) => ended
           /\ (step = "download" /\ dkPc = "done") => ended
           /\ (step = "update" /\ ~last.success) => dkPc = "install"

\* the index update failed, the install went on and ended on the failure of the
\* package installation
C35_Witness ==
    /\ dkPc = "done"
    /\ dkLog[Len(dkLog)] = "install"
    /\ ~last.success
    /\ dkInstallResult.warnings = <<WarnUpdate>>
    /\ dkResult = InstallResult(NewFailure(FailInstall))

\* ------------------------------------------------------------------ claims: confirmation
\* C36: during the install of one application the user is asked at most one
\* question before the installation steps start.
C36_AskedAtMostOnce ==
    opKind = "install" =>
        Cardinality({i \in 1..Len(opLog) : opLog[i].kind = "ask"}) <= 1

\* ------------------------------------------------------------------ claims: macOS cleanup
\* position of the first entry e of the Docker Desktop install's log, 0 when absent
RECURSIVE MacPosFrom(_, _)
MacPosFrom(e, i) ==
    IF i > Len(macLog) THEN 0
    ELSE IF macLog[i] = e THEN i
    ELSE MacPosFrom(e, i + 1)

\* C37: when the macOS Docker install has returned, an image it mounted was
\* detached after the mount and before the temporary directory was removed, and a
\* temporary directory it created has been removed.
C37_DetachBeforeRemoval ==
    macPc = "done" =>
        /\ MacPosFrom("attach", 1) > 0 =>
              /\ MacPosFrom("detach", 1) > MacPosFrom("attach", 1)
              /\ MacPosFrom("rmtmp", 1) > MacPosFrom("detach", 1)
        /\ macCreated => ~macTmp

\* the copy failed after the mount: the install returned a failure, the image was
\* detached and the directory removed
C37_Witness ==
    /\ macPc = "done"
    /\ ~macOk
    /\ macCreated
    /\ MacPosFrom("attach", 1) > 0
    /\ macLog[Len(macLog)] = "rmtmp"
    /\ macLog[Len(macLog) - 1] = "detach"

\* ------------------------------------------------------------------ claims: .zshrc
\* C38: after one or more Oh My Zsh installs and an uninstall with RemoveZshrc
\* set, ~/.zshrc holds what it held before the first install.
C38_ZshrcRestored ==
    (zshUninstalled = "zshrc" /\ zshInstalls > 0) => zshFiles.zshrc = zshOrig

====
